---------------------------- MODULE Spec2Model ----------------------------
(***************************************************************************)
(* A model of the schema-resolution engine of sheet-generator-js:          *)
(*   - SchemaRefResolverUtil.resolveIfRef / resolvePointer                 *)
(*   - ExcelToSchemaGeneratorUtil (row scanner, schema builder,            *)
(*     canonical fingerprint, block deduplication)                         *)
(*   - JsonToSchemaGeneratorUtil (instance inference, block deduplication) *)
(*                                                                         *)
(* JSON values are tagged records.  An object is the SEQUENCE of its       *)
(* key/value entries, in insertion order, because JSON.stringify and       *)
(* Object.keys observe that order.                                         *)
(***************************************************************************)
EXTENDS Integers, Sequences, FiniteSets, TLC

VARIABLES
    \* SchemaRefResolverUtil.resolveIfRef(node, rootSchema)
    rootSchema,   \* the root document
    arg,          \* the node the caller passed (a location in rootSchema)
    node,         \* the loop variable `node` (a location in rootSchema)
    rpc,          \* "idle" | "loop" | "returned" | "thrown"
    err,          \* the message of the Error thrown, empty when none
    \* ExcelToSchemaGeneratorUtil.toCanonicalJson on two block subtrees
    cu, cv,       \* the two subtrees
    canonU,       \* toCanonicalJson(cu), once computed
    canonV,       \* toCanonicalJson(cv), once computed
    cpc,          \* "idle" | "input" | "done"
    \* ExcelToSchemaGeneratorUtil.parseBlocksInSheet(sheetData)
    sheetData,    \* the rows of the sheet
    currentRow,   \* the row the scan is at, counted from 0
    blocks,       \* the blocks found so far
    block,        \* the block being read
    metaCols,     \* the meta columns of the block being read
    fields,       \* the fields of the block being read
    sheetSchema,  \* buildSheetSchema of the sheet, once built
    spc,          \* "idle" | "scan" | "fields" | "parsed" | "built"
    \* The schema of one block
    tbFront,      \* "excel" | "json"
    tbBlock,      \* the block model, or the block of the data
    tbOut,        \* the block schemas emitted for it
    tpc,          \* "idle" | "input" | "built"
    \* generate
    frontEnd,     \* "excel" | "json"
    workbook,     \* the workbook model, or the workbook data
    schema,       \* the root schema
    definitions,  \* what deduplicateBlocks returned
    gerr,         \* the message of the Error thrown, empty when none
    gpc,          \* "idle" | "model" | "built" | "deduplicated" | "done" | "thrown"
    \* parseFieldRow(row, metaCols) and buildFieldSchema(bf) on one field row
    frMeta,       \* the meta-header row of the block
    frRow,        \* the field row
    frField,      \* the BlockField parsed from it
    frSchema,     \* the schema built from the field
    fpc,          \* "idle" | "row" | "parsed" | "built"
    \* ObjectGeneratorUtil.generate(schema, outputDir)
    oSchema,      \* the schema the classes are generated from
    oSheets,      \* sheetSchemas: sheetsSchema.items.oneOf || [sheetsSchema.items]
    oSheet,       \* the sheet the sheets loop is at, counted from 1
    classNames,   \* the class names of the run, by category
    commonBlocks, \* the class names of the blocks reached through a $ref
    files,        \* the files under outputDir: path -> content
    oerr,         \* the message of the Error thrown, empty when none
    oRun,         \* 1 in the first run on outputDir, 2 in the second
    firstRun,     \* the files the first run left
    opc,          \* "idle" | "start" | "workbook" | "sheets" | "mixins" |
                  \* "index" | "done" | "thrown"
    \* The action of a command (excel-to-schema, json-to-schema,
    \* schema-to-objects)
    command,      \* "e2s" | "j2s" | "s2o"
    inputPath,    \* the entry at options.input, Missing when there is none
    outputOk,     \* whether outputDir exists or can be made
    pending,      \* the entries the walk has still to visit, in order
    visited,      \* the files processFile was called on, with what became of each
    exitCode,     \* -1 while running, then the exit code of the process
    bpc           \* "idle" | "start" | "walk" | "done"

resolverVars == <<rootSchema, arg, node, rpc, err>>
canonVars == <<cu, cv, canonU, canonV, cpc>>
sheetVars == <<sheetData, currentRow, blocks, block, metaCols, fields, sheetSchema, spc>>
blockVars == <<tbFront, tbBlock, tbOut, tpc>>
genVars == <<frontEnd, workbook, schema, definitions, gerr, gpc>>
fieldVars == <<frMeta, frRow, frField, frSchema, fpc>>
objVars == <<oSchema, oSheets, oSheet, classNames, commonBlocks, files, oerr,
             oRun, firstRun, opc>>
cliVars == <<command, inputPath, outputOk, pending, visited, exitCode, bpc>>
vars == <<resolverVars, canonVars, sheetVars, blockVars, genVars, fieldVars,
          objVars, cliVars>>

\* What the steps of one component leave alone
synthVars == <<fieldVars, objVars, cliVars>>
notResolver == <<canonVars, sheetVars, blockVars, genVars, synthVars>>
notCanon == <<resolverVars, sheetVars, blockVars, genVars, synthVars>>
notSheet == <<resolverVars, canonVars, blockVars, genVars, synthVars>>
notBlock == <<resolverVars, canonVars, sheetVars, genVars, synthVars>>
notGen == <<resolverVars, canonVars, sheetVars, blockVars, synthVars>>
schemaVars == <<resolverVars, canonVars, sheetVars, blockVars, genVars>>
notField == <<schemaVars, objVars, cliVars>>
notObj == <<schemaVars, fieldVars, cliVars>>
notCli == <<schemaVars, fieldVars, objVars>>

---------------------------------------------------------------------------
(* JSON values                                                             *)

Undefined == [t |-> "undefined"]
JNull == [t |-> "null"]
JStr(s) == [t |-> "string", s |-> s]
\* A string whose characters the code inspects (a pointer) is the sequence
\* of its atoms: "#", "/" and the texts between them.
JText(a) == [t |-> "string", a |-> a]
JNum(n) == [t |-> "number", n |-> n]
JBool(b) == [t |-> "boolean", b |-> b]
JArr(e) == [t |-> "array", e |-> e]
JObj(e) == [t |-> "object", e |-> e]
KV(k, v) == [k |-> k, v |-> v]

\* `k in o` for an own property of a plain object
HasKey(o, k) == o.t = "object" /\ \E i \in 1..Len(o.e) : o.e[i].k = k

\* o[k]: the value of an own property, undefined when there is none
Get(o, k) ==
    IF HasKey(o, k)
    THEN o.e[CHOOSE i \in 1..Len(o.e) : o.e[i].k = k].v
    ELSE Undefined

\* JavaScript truthiness, as tested by `while (node.$ref)` and `if (!current)`
Truthy(v) ==
    CASE v.t = "undefined" -> FALSE
      [] v.t = "null"      -> FALSE
      [] v.t = "boolean"   -> v.b
      [] v.t = "number"    -> v.n # 0
      [] v.t = "string"    -> IF "a" \in DOMAIN v THEN v.a # <<>> ELSE v.s # ""
      [] OTHER             -> TRUE

\* The value found in `root` by following the keys of `path`: a location of
\* the document stands for the object reference the code holds.
RECURSIVE At(_, _)
At(root, path) ==
    IF path = <<>> THEN root ELSE At(Get(root, Head(path)), Tail(path))

---------------------------------------------------------------------------
(* Reference resolver: the documents it is run on                          *)

NumNodes == 3

NodeName(i) == <<"A", "B", "C", "D", "E", "F">>[i]
Names == {NodeName(i) : i \in 1..NumNodes}

\* The null `node` argument
NullNode == <<"<null>">>

PlainNode == JObj(<<KV("type", JStr("object"))>>)
NestedNode ==
    JObj(<<KV("type", JStr("object")),
           KV("inner", JObj(<<KV("type", JStr("string"))>>))>>)
RefNode(ref) == JObj(<<KV("$ref", JText(ref))>>)

LocalRef(n) == <<"#", "/", "definitions", "/", n>>
DeepRef(n) == <<"#", "/", "definitions", "/", n, "/", "inner">>
NonLocalRef == <<"other.json", "#", "/", "definitions", "/", "A">>
NoRootRef == <<"#", "/", "defs", "/", "A">>

\* What one entry of `definitions` may be; Undefined: the entry is absent.
NodeChoices ==
    {Undefined, PlainNode, NestedNode, RefNode(<<>>), RefNode(NonLocalRef),
     RefNode(NoRootRef)}
    \cup {RefNode(LocalRef(n)) : n \in Names}
    \cup {RefNode(DeepRef(n)) : n \in Names}

Document(f) ==
    JObj(<<KV("definitions",
              JObj(SelectSeq([i \in 1..NumNodes |-> KV(NodeName(i), f[NodeName(i)])],
                             LAMBDA e : e.v # Undefined)))>>)

---------------------------------------------------------------------------
(* String operations on pointers                                           *)

\* Mutant: ref.includes('#/') instead of ref.startsWith('#/')
startsWith_includes(ref) ==
    \E i \in 1..(Len(ref) - 1) : ref[i] = "#" /\ ref[i + 1] = "/"

\* ref.startsWith('#/')
startsWith(ref) == Len(ref) >= 2 /\ ref[1] = "#" /\ ref[2] = "/"

\* The text left of an atom once its first k characters are cut off
DropChars(atom, k) ==
    IF k = 0 THEN <<atom>>
    ELSE IF atom = "other.json" /\ k = 2 THEN <<"her.json">>
    ELSE IF atom = "other.json" /\ k = 1 THEN <<"ther.json">>
    ELSE <<>>

\* ref.substring(2): "#" and "/" are one character each
RECURSIVE substringFrom(_, _)
substringFrom(ref, k) ==
    IF ref = <<>> \/ k = 0 THEN ref
    ELSE IF Head(ref) \in {"#", "/"} THEN substringFrom(Tail(ref), k - 1)
    ELSE DropChars(Head(ref), k) \o Tail(ref)

substring(ref) == substringFrom(ref, 2)

\* pointer.split('/'): the texts between the "/" atoms; "" where there is none
RECURSIVE splitFrom(_, _)
splitFrom(pointer, part) ==
    IF pointer = <<>> THEN <<part>>
    ELSE IF Head(pointer) = "/" THEN <<part>> \o splitFrom(Tail(pointer), "")
    ELSE splitFrom(Tail(pointer), part \o Head(pointer))

split(pointer) == splitFrom(pointer, "")

---------------------------------------------------------------------------
(* SchemaRefResolverUtil                                                   *)

\* Mutant: the segments are followed without the `if (!current)` test
walk_unchecked(root, parts, current) == [ok |-> TRUE, at |-> current \o parts]

\* for (const part of parts) { current = current[part]; if (!current) throw }
RECURSIVE walk(_, _, _)
walk(root, parts, current) ==
    IF parts = <<>> THEN [ok |-> TRUE, at |-> current]
    ELSE LET next == Append(current, Head(parts))
         IN  IF ~Truthy(At(root, next))
             THEN [ok |-> FALSE, at |-> next]
             ELSE walk(root, Tail(parts), next)

resolvePointer(pointer, root) == walk(root, split(pointer), <<>>)

\* node.$ref
RefOf(root, n) == Get(At(root, n), "$ref")

\* The characters of a string value
Text(v) == IF "a" \in DOMAIN v THEN v.a ELSE <<v.s>>

\* Mutant: the loop tests that a $ref key is present, not that it is truthy
HasRef_keyPresent(root, n) == n # NullNode /\ HasKey(At(root, n), "$ref")

\* `if (!node) return node` and the exit of `while (node.$ref)`
HasRef(root, n) == n # NullNode /\ Truthy(RefOf(root, n))

\* The conditions under which each branch of the loop is taken
CanReturn == rpc = "loop" /\ ~HasRef(rootSchema, node)

CanFollow ==
    /\ rpc = "loop"
    /\ HasRef(rootSchema, node)
    /\ startsWith(Text(RefOf(rootSchema, node)))
    /\ resolvePointer(substring(Text(RefOf(rootSchema, node))), rootSchema).ok

CanThrowUnresolved ==
    /\ rpc = "loop"
    /\ HasRef(rootSchema, node)
    /\ startsWith(Text(RefOf(rootSchema, node)))
    /\ ~resolvePointer(substring(Text(RefOf(rootSchema, node))), rootSchema).ok

CanThrowUnsupported ==
    /\ rpc = "loop"
    /\ HasRef(rootSchema, node)
    /\ ~startsWith(Text(RefOf(rootSchema, node)))

ReturnNode ==
    /\ CanReturn
    /\ rpc' = "returned"
    /\ UNCHANGED <<rootSchema, arg, node, err, notResolver>>

\* Mutant: `if (node.$ref)` instead of `while (node.$ref)`: one pointer is
\* followed and its target returned
FollowRef_once ==
    /\ CanFollow
    /\ node' = resolvePointer(substring(Text(RefOf(rootSchema, node))), rootSchema).at
    /\ rpc' = "returned"
    /\ UNCHANGED <<rootSchema, arg, err, notResolver>>

\* Mutant: a pointer that leads back to the node the call began at is an Error
FollowRef_guarded ==
    /\ CanFollow
    /\ \E target \in {resolvePointer(substring(Text(RefOf(rootSchema, node))), rootSchema).at} :
         IF target = arg
         THEN /\ err' = <<"Circular $ref: ">> \o Text(RefOf(rootSchema, node))
              /\ rpc' = "thrown"
              /\ node' = node
         ELSE /\ node' = target
              /\ UNCHANGED <<rpc, err>>
    /\ UNCHANGED <<rootSchema, arg, notResolver>>

\* while (node.$ref) { ...; node = this.resolvePointer(ref.substring(2), rootSchema) }
FollowRef ==
    /\ CanFollow
    /\ node' = resolvePointer(substring(Text(RefOf(rootSchema, node))), rootSchema).at
    /\ UNCHANGED <<rootSchema, arg, rpc, err, notResolver>>

\* Mutant: the message carries the reference as written, "#/" included
ThrowUnresolved_wholeRef ==
    /\ CanThrowUnresolved
    /\ err' = <<"Could not resolve pointer: ">> \o Text(RefOf(rootSchema, node))
    /\ rpc' = "thrown"
    /\ UNCHANGED <<rootSchema, arg, node, notResolver>>

ThrowUnresolved ==
    /\ CanThrowUnresolved
    /\ err' = <<"Could not resolve pointer: ">>
                \o substring(Text(RefOf(rootSchema, node)))
    /\ rpc' = "thrown"
    /\ UNCHANGED <<rootSchema, arg, node, notResolver>>

ThrowUnsupported ==
    /\ CanThrowUnsupported
    /\ err' = <<"Unsupported $ref format (expected local ref): ">>
                \o Text(RefOf(rootSchema, node))
    /\ rpc' = "thrown"
    /\ UNCHANGED <<rootSchema, arg, node, notResolver>>

resolveIfRef ==
    \/ ReturnNode
    \/ FollowRef
    \/ ThrowUnresolved
    \/ ThrowUnsupported

ResolverInit ==
    /\ \E f \in [Names -> NodeChoices] : rootSchema = Document(f)
    /\ arg \in {NullNode}
            \cup {<<"definitions", n>> : n \in {m \in Names : HasKey(Get(rootSchema, "definitions"), m)}}
    /\ node = arg
    /\ rpc = "loop"
    /\ err = <<>>

ResolverIdle ==
    /\ rootSchema = JNull
    /\ arg = NullNode
    /\ node = NullNode
    /\ rpc = "idle"
    /\ err = <<>>

---------------------------------------------------------------------------
(* JSON.stringify, JSON.parse and Array.prototype.sort                     *)
(* The text JSON.stringify produces is the sequence of its tokens: the     *)
(* punctuation, the digits of a number, the literals, and for a string a   *)
(* quote, its characters, a quote.                                         *)

\* The keys the schemas use, in the order sort() gives them (UTF-16 code units)
SortedKeys ==
    <<"$ref", "$schema", "@entity", "a", "additionalItems",
      "additionalProperties", "b", "blocks", "city", "definitions",
      "description", "enum", "examples", "header", "id", "items", "k", "label",
      "maxItems", "maxLength", "maximum", "minItems", "minLength", "minimum",
      "name", "oneOf", "pattern", "properties", "required", "rows", "sheets",
      "street", "type", "z", "zip">>

\* The place of each key in that order
Ranks == [k \in {SortedKeys[i] : i \in 1..Len(SortedKeys)} |->
            CHOOSE i \in 1..Len(SortedKeys) : SortedKeys[i] = k]
KeyRank(k) == Ranks[k]

RECURSIVE insertSorted(_, _)
insertSorted(sorted, e) ==
    IF sorted = <<>> THEN <<e>>
    ELSE IF KeyRank(e.k) < KeyRank(Head(sorted).k) THEN <<e>> \o sorted
    ELSE <<Head(sorted)>> \o insertSorted(Tail(sorted), e)

\* Object.keys(value).sort(), carried out on the entries
RECURSIVE sortEntries(_)
sortEntries(entries) ==
    IF entries = <<>> THEN <<>>
    ELSE insertSorted(sortEntries(Tail(entries)), Head(entries))

Digits == <<"0", "1", "2", "3", "4", "5", "6", "7", "8", "9">>
Digit(d) == Digits[d + 1]
DigitValues == [tok \in {Digits[i] : i \in 1..10} |-> CHOOSE d \in 0..9 : Digits[d + 1] = tok]
IsDigit(tok) == tok \in DOMAIN DigitValues
DigitValue(tok) == DigitValues[tok]

RECURSIVE digits(_)
digits(n) == IF n < 10 THEN <<Digit(n)>> ELSE digits(n \div 10) \o <<Digit(n % 10)>>

RECURSIVE stringify(_)
RECURSIVE stringifyMembers(_, _)
RECURSIVE stringifyElements(_, _)

\* The members of an object: an undefined value is left out
stringifyMembers(entries, first) ==
    IF entries = <<>> THEN <<>>
    ELSE IF Head(entries).v.t = "undefined"
    THEN stringifyMembers(Tail(entries), first)
    ELSE (IF first THEN <<>> ELSE <<",">>)
         \o <<"\"", Head(entries).k, "\"", ":">>
         \o stringify(Head(entries).v)
         \o stringifyMembers(Tail(entries), FALSE)

\* The elements of an array: an undefined element is written null
stringifyElements(elements, first) ==
    IF elements = <<>> THEN <<>>
    ELSE (IF first THEN <<>> ELSE <<",">>)
         \o (IF Head(elements).t = "undefined" THEN <<"null">>
             ELSE stringify(Head(elements)))
         \o stringifyElements(Tail(elements), FALSE)

\* JSON.stringify(v)
stringify(v) ==
    CASE v.t = "object"  -> <<"{">> \o stringifyMembers(v.e, TRUE) \o <<"}">>
      [] v.t = "array"   -> <<"[">> \o stringifyElements(v.e, TRUE) \o <<"]">>
      [] v.t = "string"  -> <<"\"", v.s, "\"">>
      [] v.t = "number"  -> digits(v.n)
      [] v.t = "boolean" -> IF v.b THEN <<"true">> ELSE <<"false">>
      [] OTHER           -> <<"null">>

\* The parser reads the tokens of `toks` from position `pos` on and gives
\* the value read and the position after it
RECURSIVE parseValue(_, _)
RECURSIVE parseMembers(_, _, _)
RECURSIVE parseElements(_, _, _)
RECURSIVE parseNumber(_, _, _)

parseNumber(toks, pos, n) ==
    IF pos <= Len(toks) /\ IsDigit(toks[pos])
    THEN parseNumber(toks, pos + 1, 10 * n + DigitValue(toks[pos]))
    ELSE [v |-> JNum(n), next |-> pos]

parseMembers(toks, pos, acc) ==
    IF toks[pos] = "}" THEN [v |-> JObj(acc), next |-> pos + 1]
    ELSE IF toks[pos] = "," THEN parseMembers(toks, pos + 1, acc)
    ELSE \* "\"", key, "\"", ":", value
         LET val == parseValue(toks, pos + 4)
         IN  parseMembers(toks, val.next, Append(acc, KV(toks[pos + 1], val.v)))

parseElements(toks, pos, acc) ==
    IF toks[pos] = "]" THEN [v |-> JArr(acc), next |-> pos + 1]
    ELSE IF toks[pos] = "," THEN parseElements(toks, pos + 1, acc)
    ELSE LET val == parseValue(toks, pos)
         IN  parseElements(toks, val.next, Append(acc, val.v))

parseValue(toks, pos) ==
    CASE toks[pos] = "{"     -> parseMembers(toks, pos + 1, <<>>)
      [] toks[pos] = "["     -> parseElements(toks, pos + 1, <<>>)
      [] toks[pos] = "\""    -> [v |-> JStr(toks[pos + 1]), next |-> pos + 3]
      [] toks[pos] = "true"  -> [v |-> JBool(TRUE), next |-> pos + 1]
      [] toks[pos] = "false" -> [v |-> JBool(FALSE), next |-> pos + 1]
      [] toks[pos] = "null"  -> [v |-> JNull, next |-> pos + 1]
      [] OTHER               -> parseNumber(toks, pos, 0)

\* JSON.parse(text)
parse(text) == parseValue(text, 1).v

---------------------------------------------------------------------------
(* ExcelToSchemaGeneratorUtil: canonical JSON                              *)

\* Mutant: the keys are sorted at the top level only
toTreeMapRecursive_shallow(value) ==
    IF value.t = "object" THEN JObj(sortEntries(value.e)) ELSE value

RECURSIVE toTreeMapRecursive(_)
toTreeMapRecursive(value) ==
    IF value.t = "array"
    THEN JArr([i \in 1..Len(value.e) |-> toTreeMapRecursive(value.e[i])])
    ELSE IF value.t = "object"
    THEN JObj(sortEntries([i \in 1..Len(value.e) |->
                 KV(value.e[i].k, toTreeMapRecursive(value.e[i].v))]))
    ELSE value

toCanonicalJson(obj) == stringify(toTreeMapRecursive(obj))

fromCanonicalJson(jsonStr) == parse(jsonStr)

\* The subtrees the fingerprint is taken of
MaxArrLen == 2

CanonKeys == {"a", "b"}
CanonPrims == {JNum(1), JStr("1")}

ObjectsOver(V) ==
    {JObj(<<>>)}
    \cup {JObj(<<KV(k, v)>>) : k \in CanonKeys, v \in V}
    \cup {JObj(<<KV(k[1], v[1]), KV(k[2], v[2])>>) :
            k \in {q \in CanonKeys \X CanonKeys : q[1] # q[2]}, v \in V \X V}

ArraysOver(V) == {JArr(e) : e \in UNION {[1..n -> V] : n \in 0..MaxArrLen}}

CanonLeaves == CanonPrims \cup ObjectsOver(CanonPrims) \cup ArraysOver(CanonPrims)

\* A subtree placed one level down: under a key, beside another key on
\* either side, or as an array element on either side of another
Contexts == {"top", "key", "keyFirst", "keyLast", "elem", "elemFirst", "elemLast"}

InContext(ctx, v) ==
    CASE ctx = "top"       -> v
      [] ctx = "key"       -> JObj(<<KV("k", v)>>)
      [] ctx = "keyFirst"  -> JObj(<<KV("k", v), KV("z", JNum(1))>>)
      [] ctx = "keyLast"   -> JObj(<<KV("z", JNum(1)), KV("k", v)>>)
      [] ctx = "elem"      -> JArr(<<v>>)
      [] ctx = "elemFirst" -> JArr(<<v, JNum(1)>>)
      [] OTHER             -> JArr(<<JNum(1), v>>)

CanonInit ==
    /\ \E x \in CanonLeaves, c \in Contexts : cu = InContext(c, x)
    /\ \E y \in CanonLeaves, c \in Contexts : cv = InContext(c, y)
    /\ canonU = <<>>
    /\ canonV = <<>>
    /\ cpc = "input"

CanonIdle ==
    /\ cu = JNull
    /\ cv = JNull
    /\ canonU = <<>>
    /\ canonV = <<>>
    /\ cpc = "idle"

\* The two fingerprints deduplicateBlocks compares
Fingerprint ==
    /\ cpc = "input"
    /\ canonU' = toCanonicalJson(cu)
    /\ canonV' = toCanonicalJson(cv)
    /\ cpc' = "done"
    /\ UNCHANGED <<cu, cv, notCanon>>

---------------------------------------------------------------------------
(* ExcelToSchemaGeneratorUtil: the sheet scanner                           *)
(* A sheet is the array of rows sheet_to_json({header: 1}) returns; a cell *)
(* is a JSON value, and a cell past the end of its row is undefined.       *)

\* String.prototype.trim on the texts the cells hold
trim(s) == CASE s = " id " -> "id" [] s = "  " -> "" [] OTHER -> s

\* String.prototype.toLowerCase on the texts the cells hold
toLowerCase(s) ==
    CASE s = "No" -> "no" [] s = "NO" -> "no" [] s = "Yes" -> "yes"
      [] s = "Type" -> "type" [] s = "minLength" -> "minlength"
      [] s = "maxLength" -> "maxlength" [] OTHER -> s

\* String.prototype.endsWith: s is some text followed by the suffix
Stems == {"", "employee", "address"}
endsWith(s, suffix) == \E stem \in Stems : s = stem \o suffix

\* value.toString()
toString(v) ==
    CASE v.t = "number"  -> ToString(v.n)
      [] v.t = "boolean" -> IF v.b THEN "true" ELSE "false"
      [] OTHER           -> v.s

\* (cell || "").toString().trim()
cellText(cell) == IF Truthy(cell) THEN trim(toString(cell)) ELSE ""

\* row[idx], with idx counted from 0
Cell(row, idx) == IF idx < Len(row) THEN row[idx + 1] ELSE Undefined

\* sheetData[r] || [], with r counted from 0
RowAt(data, r) == IF r < Len(data) THEN data[r + 1] ELSE <<>>

\* firstCellVal.endsWith("_list") || firstCellVal.endsWith("_table")
isBlockHeading(row) ==
    endsWith(cellText(Cell(row, 0)), "_list") \/ endsWith(cellText(Cell(row, 0)), "_table")

MetaKeys ==
    {"null_allowed", "type", "minimum", "maximum", "minLength", "maxLength",
     "pattern", "enum", "description", "examples"}

\* The lower-case text findMetaColumns compares a cell with, for each key
MetaLabel(key) ==
    CASE key = "minLength" -> "minlength" [] key = "maxLength" -> "maxlength"
      [] OTHER -> key

\* The column of each meta key: the last cell that names it, -1 when none
findMetaColumns(metaHeaderRow) ==
    [key \in MetaKeys |->
        LET hits == {i \in 0..(Len(metaHeaderRow) - 1) :
                        toLowerCase(cellText(Cell(metaHeaderRow, i))) = MetaLabel(key)}
        IN  IF hits = {} THEN -1 ELSE CHOOSE i \in hits : \A j \in hits : j <= i]

parseFieldRow(row, cols) ==
    LET getSafeVal(colName) ==
            IF cols[colName] = -1 THEN "" ELSE cellText(Cell(row, cols[colName]))
    IN  [fieldName   |-> cellText(Cell(row, 0)),
         nullAllowed |-> getSafeVal("null_allowed"),
         type        |-> getSafeVal("type"),
         minimum     |-> getSafeVal("minimum"),
         maximum     |-> getSafeVal("maximum"),
         minLength   |-> getSafeVal("minLength"),
         maxLength   |-> getSafeVal("maxLength"),
         pattern     |-> getSafeVal("pattern"),
         enumValues  |-> getSafeVal("enum"),
         description |-> getSafeVal("description"),
         examples    |-> getSafeVal("examples")]

isBlankRow(row) == \A i \in 1..Len(row) : cellText(row[i]) = ""

---------------------------------------------------------------------------
(* ExcelToSchemaGeneratorUtil: the schema builder                          *)

\* obj[k] = v: an existing key keeps its place, a new key goes last
SetKey(o, k, v) ==
    IF HasKey(o, k)
    THEN JObj([i \in 1..Len(o.e) |-> IF o.e[i].k = k THEN KV(k, v) ELSE o.e[i]])
    ELSE JObj(Append(o.e, KV(k, v)))

\* { type: "string", enum: [text] }
StringEnum(text) ==
    JObj(<<KV("type", JStr("string")), KV("enum", JArr(<<JStr(text)>>))>>)

\* The numerals the cells hold: Number(text) is NaN for any other text
Numerals == 0..20
isNaN(text) == \A n \in Numerals : text # ToString(n)
parseFloat(text) == CHOOSE n \in Numerals : text = ToString(n)
parseInt(text) == CHOOSE n \in Numerals : text = ToString(n)

\* bf.enumValues.split(/\s*,\s*/) on the texts the cells hold
splitCommas(text) == CASE text = "a, b" -> <<"a", "b">> [] OTHER -> <<text>>

\* Mutant: null_allowed is not read, every typed field admits null
buildFieldSchema_alwaysNullable(bf) ==
    JObj(<<KV("type", IF bf.type # ""
                      THEN JArr(<<JStr(bf.type), JStr("null")>>)
                      ELSE JStr("string"))>>)

buildFieldSchema(bf) ==
    LET typeOf ==
            IF bf.type # ""
            THEN IF bf.nullAllowed # "" /\ toLowerCase(bf.nullAllowed) = "no"
                 THEN JStr(bf.type)
                 ELSE JArr(<<JStr(bf.type), JStr("null")>>)
            ELSE JStr("string")
        float(key, text) ==
            IF text # "" /\ ~isNaN(text) THEN <<KV(key, JNum(parseFloat(text)))>> ELSE <<>>
        int(key, text) ==
            IF text # "" /\ ~isNaN(text) THEN <<KV(key, JNum(parseInt(text)))>> ELSE <<>>
    IN  JObj(<<KV("type", typeOf)>>
             \o float("minimum", bf.minimum)
             \o float("maximum", bf.maximum)
             \o int("minLength", bf.minLength)
             \o int("maxLength", bf.maxLength)
             \o (IF bf.pattern # "" THEN <<KV("pattern", JStr(bf.pattern))>> ELSE <<>>)
             \o (IF bf.enumValues # ""
                 THEN <<KV("enum", JArr([i \in 1..Len(splitCommas(bf.enumValues)) |->
                                           JStr(splitCommas(bf.enumValues)[i])]))>>
                 ELSE <<>>)
             \o (IF bf.description # ""
                 THEN <<KV("description", JStr(bf.description))>> ELSE <<>>)
             \o (IF bf.examples # ""
                 THEN <<KV("examples", JArr(<<JStr(bf.examples)>>))>> ELSE <<>>))

\* for (const bf of block.fields) itemProps[bf.fieldName] = buildFieldSchema(bf)
RECURSIVE itemPropsOf(_, _)
itemPropsOf(flds, itemProps) ==
    IF flds = <<>> THEN itemProps
    ELSE itemPropsOf(Tail(flds),
                     SetKey(itemProps, Head(flds).fieldName, buildFieldSchema(Head(flds))))

\* { type: "object", properties: { name, @entity, items: { type: "array",
\*   items: { type: "object", properties, additionalProperties: false } } },
\*   required }
ListSchema(name, itemProps) ==
    JObj(<<KV("type", JStr("object")),
           KV("properties", JObj(<<
               KV("name", StringEnum(name)),
               KV("@entity", StringEnum("list")),
               KV("items", JObj(<<
                   KV("type", JStr("array")),
                   KV("items", JObj(<<
                       KV("type", JStr("object")),
                       KV("properties", itemProps),
                       KV("additionalProperties", JBool(FALSE))>>))>>))>>)),
           KV("required", JArr(<<JStr("name"), JStr("@entity"), JStr("items")>>))>>)

buildListBlockSchema(blk) ==
    ListSchema(blk.name, itemPropsOf(blk.fields, JObj(<<>>)))

\* { type: "array", items, additionalItems: false, minItems, maxItems }
Tuple(items, size) ==
    JObj(<<KV("type", JStr("array")),
           KV("items", JArr(items)),
           KV("additionalItems", JBool(FALSE)),
           KV("minItems", JNum(size)),
           KV("maxItems", JNum(size))>>)

\* { type: "object", properties: { name, @entity, header, rows }, required }
TableSchema(name, headerSchema, rowItemsSchema) ==
    JObj(<<KV("type", JStr("object")),
           KV("properties", JObj(<<
               KV("name", StringEnum(name)),
               KV("@entity", StringEnum("table")),
               KV("header", headerSchema),
               KV("rows", JObj(<<KV("type", JStr("array")),
                                 KV("items", rowItemsSchema)>>))>>)),
           KV("required", JArr(<<JStr("name"), JStr("@entity"),
                                 JStr("header"), JStr("rows")>>))>>)

\* Mutant: the column constraints are emitted in reverse field order
buildTableBlockSchema_reversedColumns(blk) ==
    LET n == Len(blk.fields)
    IN  TableSchema(blk.name,
            Tuple([i \in 1..n |-> StringEnum(blk.fields[i].fieldName)], n),
            Tuple([i \in 1..n |-> buildFieldSchema(blk.fields[n + 1 - i])], n))

buildTableBlockSchema(blk) ==
    LET headerItems == [i \in 1..Len(blk.fields) |-> StringEnum(blk.fields[i].fieldName)]
        headerSize == Len(headerItems)
        columnSchemas == [i \in 1..Len(blk.fields) |-> buildFieldSchema(blk.fields[i])]
    IN  TableSchema(blk.name, Tuple(headerItems, headerSize),
                    Tuple(columnSchemas, headerSize))

\* { type: "object", properties: { name, @entity, <key>: { type: "array",
\*   items: { oneOf } } }, required }: a sheet over its blocks, the workbook
\* over its sheets
Container(name, entity, key, oneOf) ==
    JObj(<<KV("type", JStr("object")),
           KV("properties", JObj(<<
               KV("name", StringEnum(name)),
               KV("@entity", StringEnum(entity)),
               KV(key, JObj(<<KV("type", JStr("array")),
                              KV("items", JObj(<<KV("oneOf", JArr(oneOf))>>))>>))>>)),
           KV("required", JArr(<<JStr("name"), JStr("@entity"), JStr(key)>>))>>)

\* sheet.blocks.map((b) => b.entity === "list" ? list schema : table schema)
buildSheetBlocks(blks) ==
    [i \in 1..Len(blks) |->
        IF blks[i].entity = "list"
        THEN buildListBlockSchema(blks[i])
        ELSE buildTableBlockSchema(blks[i])]

buildSheetSchema(sheet) ==
    Container(sheet.name, sheet.entity, "blocks", buildSheetBlocks(sheet.blocks))

SchemaUri == "http://json-schema.org/draft-07/schema#"

buildJsonSchema(wb) ==
    LET body == Container(wb.name, wb.entity, "sheets",
                          [i \in 1..Len(wb.sheets) |-> buildSheetSchema(wb.sheets[i])])
    IN  JObj(<<KV("$schema", JStr(SchemaUri))>> \o body.e)

---------------------------------------------------------------------------
(* JsonToSchemaGeneratorUtil: the schema inferred from workbook data       *)
(* A block of the data is [name, entity, header, rows, items]; an absent   *)
(* header, rows or items is the empty array, which the code treats alike.  *)

deriveJsonSchemaType(value) ==
    CASE value.t = "null"    -> "null"
      [] value.t = "boolean" -> "boolean"
      [] value.t = "number"  -> "number"
      [] value.t = "array"   -> "array"
      [] value.t = "object"  -> "object"
      [] OTHER               -> "string"

\* Mutant: the types are collected in an array, one for each row
RECURSIVE uniqueTypesOf_perRow(_, _, _)
uniqueTypesOf_perRow(rows, colIndex, uniqueTypes) ==
    IF rows = <<>> THEN uniqueTypes
    ELSE uniqueTypesOf_perRow(Tail(rows), colIndex,
             Append(uniqueTypes, deriveJsonSchemaType(Cell(Head(rows), colIndex))))

\* uniqueTypes.add(type) for each row: a Set keeps each type once, in the
\* order in which it was first added
RECURSIVE uniqueTypesOf(_, _, _)
uniqueTypesOf(rows, colIndex, uniqueTypes) ==
    IF rows = <<>> THEN uniqueTypes
    ELSE LET type == deriveJsonSchemaType(Cell(Head(rows), colIndex))
         IN  uniqueTypesOf(Tail(rows), colIndex,
                 IF \E i \in 1..Len(uniqueTypes) : uniqueTypes[i] = type
                 THEN uniqueTypes ELSE Append(uniqueTypes, type))

\* The element of columnTypes for the column colIndex, counted from 0
columnType(blk, colIndex) ==
    LET types == uniqueTypesOf(blk.rows, colIndex, <<>>)
    IN  JObj(<<KV("type",
               IF Len(types) = 1 THEN JStr(types[1])
               ELSE IF Len(types) > 0 THEN JArr([i \in 1..Len(types) |-> JStr(types[i])])
               ELSE JStr("null"))>>)

handleTableBlock(blk, blockName, blocksOneOf) ==
    LET headerSize == Len(blk.header)
        columnTypes == [c \in 1..headerSize |-> columnType(blk, c - 1)]
    IN  Append(blocksOneOf,
            TableSchema(blockName,
                Tuple([h \in 1..headerSize |-> StringEnum(blk.header[h])], headerSize),
                Tuple(columnTypes, headerSize)))

\* const [key, value] = Object.entries(item)[0]; properties[key] = { type }
RECURSIVE propertiesOf(_, _)
propertiesOf(items, properties) ==
    IF items = <<>> THEN properties
    ELSE LET entry == Head(items).e[1]
         IN  propertiesOf(Tail(items),
                 SetKey(properties, entry.k,
                        JObj(<<KV("type", JStr(deriveJsonSchemaType(entry.v)))>>)))

handleListBlock(blk, blockName, blocksOneOf) ==
    Append(blocksOneOf, ListSchema(blockName, propertiesOf(blk.items, JObj(<<>>))))

\* for (const block of sheet.blocks): a block that is neither a table nor a
\* list adds nothing
RECURSIVE handleBlocks(_, _)
handleBlocks(blks, blocksOneOf) ==
    IF blks = <<>> THEN blocksOneOf
    ELSE handleBlocks(Tail(blks),
            IF Head(blks).entity = "table"
            THEN handleTableBlock(Head(blks), Head(blks).name, blocksOneOf)
            ELSE IF Head(blks).entity = "list"
            THEN handleListBlock(Head(blks), Head(blks).name, blocksOneOf)
            ELSE blocksOneOf)

sheetSchemas(data) ==
    [i \in 1..Len(data.sheets) |->
        Container(data.sheets[i].name, data.sheets[i].entity, "blocks",
                  handleBlocks(data.sheets[i].blocks, <<>>))]

\* The schema generate builds before it deduplicates
inferSchema(data) ==
    JObj(<<KV("$schema", JStr(SchemaUri))>>
         \o Container(data.name, data.entity, "sheets", sheetSchemas(data)).e)

---------------------------------------------------------------------------
(* Block deduplication, in both front-ends                                 *)

SheetsPath == <<"properties", "sheets", "items", "oneOf">>
BlocksPath == <<"properties", "blocks", "items", "oneOf">>

\* The elements of an array, none when the value is no array
\* (`if (!Array.isArray(x)) return`, `x || []`)
Elements(v) == IF v.t = "array" THEN v.e ELSE <<>>

\* The object with the value at `path` replaced
RECURSIVE SetPath(_, _, _)
SetPath(o, path, v) ==
    IF path = <<>> THEN v
    ELSE SetKey(o, Head(path), SetPath(Get(o, Head(path)), Tail(path), v))

\* The locations of the block slots, sheet by sheet; index counts from 0
RECURSIVE locationsFrom(_, _)
locationsFrom(oneOfSheets, s) ==
    IF s > Len(oneOfSheets) THEN <<>>
    ELSE LET list == Elements(At(oneOfSheets[s], BlocksPath))
         IN  [i \in 1..Len(list) |->
                 [sheet |-> s, index |-> i - 1, blockSchema |-> list[i]]]
             \o locationsFrom(oneOfSheets, s + 1)

findAllBlockSchemas(root) == locationsFrom(Elements(At(root, SheetsPath)), 1)

Json_findAllBlockSchemas(root) == locationsFrom(Elements(At(root, SheetsPath)), 1)

\* loc.blocksOneOf[loc.index] = slot
SetSlot(root, loc, slot) ==
    LET sheets == At(root, SheetsPath).e
        list == At(sheets[loc.sheet], BlocksPath).e
    IN  SetPath(root, SheetsPath,
            JArr([sheets EXCEPT ![loc.sheet] =
                    SetPath(@, BlocksPath, JArr([list EXCEPT ![loc.index + 1] = slot]))]))

\* A Map from fingerprints: its entries in insertion order
MapHas(map, key) == \E i \in 1..Len(map) : map[i].key = key
MapGet(map, key) == map[CHOOSE i \in 1..Len(map) : map[i].key = key].value
MapSet(map, key, value) ==
    IF MapHas(map, key)
    THEN [i \in 1..Len(map) |-> IF map[i].key = key THEN [key |-> key, value |-> value] ELSE map[i]]
    ELSE Append(map, [key |-> key, value |-> value])

\* usageCount.set(canon, (usageCount.get(canon) || 0) + 1) for each location
RECURSIVE countUsage(_, _)
countUsage(canons, usageCount) ==
    IF canons = <<>> THEN usageCount
    ELSE countUsage(Tail(canons),
            MapSet(usageCount, Head(canons),
                   IF MapHas(usageCount, Head(canons))
                   THEN MapGet(usageCount, Head(canons)) + 1 ELSE 1))

\* Mutant: a fingerprint seen once is moved to the definitions as well
IsRepeated_once(count) == count > 0

\* if (count > 1)
IsRepeated(count) == count > 1

\* char.charCodeAt(0), summed over the characters of a token of the text
charCodes(tok) ==
    CASE IsDigit(tok) -> 48 + DigitValue(tok)
      [] tok = "{" -> 123 [] tok = "}" -> 125 [] tok = "[" -> 91 [] tok = "]" -> 93
      [] tok = "\"" -> 34 [] tok = ":" -> 58 [] tok = "," -> 44
      [] tok = "true" -> 448 [] tok = "false" -> 523 [] tok = "null" -> 443
      [] tok = "type" -> 450 [] tok = "properties" -> 1101 [] tok = "name" -> 417
      [] tok = "enum" -> 437 [] tok = "@entity" -> 733 [] tok = "items" -> 546
      [] tok = "additionalProperties" -> 2118 [] tok = "required" -> 865
      [] tok = "header" -> 617 [] tok = "rows" -> 459
      [] tok = "additionalItems" -> 1563 [] tok = "minItems" -> 838
      [] tok = "maxItems" -> 840 [] tok = "object" -> 631 [] tok = "string" -> 663
      [] tok = "array" -> 543 [] tok = "list" -> 444 [] tok = "table" -> 520
      [] tok = "number" -> 649 [] tok = "boolean" -> 736
      [] tok = "in/out_list" -> 1145 [] tok = "row_table" -> 959
      [] tok = "employee" -> 864 [] tok = "address_list" -> 1281 [] tok = "employee_table" -> 1479
      [] tok = "street" -> 663 [] tok = "zip" -> 339 [] tok = "id" -> 205
      [] tok = "label" -> 512 [] tok = "city" -> 441 [] tok = "x" -> 120

\* canonical.split('').reduce((acc, char) => acc + char.charCodeAt(0), 0):
\* the sum of the codes, taken half by half
RECURSIVE hashOf(_)
hashOf(canonical) ==
    IF Len(canonical) = 0 THEN 0
    ELSE IF Len(canonical) = 1 THEN charCodes(canonical[1])
    ELSE LET half == Len(canonical) \div 2
         IN  hashOf(SubSeq(canonical, 1, half))
             + hashOf(SubSeq(canonical, half + 1, Len(canonical)))

\* A block name that holds a "/", and the name the Json front-end gives the
\* definition of the one-field list that bears it
SlashName == "in/out_list"
SlashItems == <<JObj(<<KV("street", JStr("x"))>>)>>
SlashHash ==
    ToString(hashOf(stringify(ListSchema(SlashName, propertiesOf(SlashItems, JObj(<<>>))))))
SlashDefName == SlashName \o "_" \o SlashHash

\* The characters of a definition name as the template literal lays them
\* into the pointer: a "/" of the name is a "/" of the pointer
nameAtoms(defName) ==
    CASE defName = SlashName -> <<"in", "/", "out_list">>
      [] defName = SlashDefName -> <<"in", "/", "out_list_" \o SlashHash>>
      [] OTHER -> <<defName>>

\* { $ref: `#/definitions/${defName}` }
RefTo(defName) ==
    JObj(<<KV("$ref", JText(<<"#", "/", "definitions", "/">> \o nameAtoms(defName)))>>)

\* blockMap.properties.name.enum[0] || "Block"
blockNameOf(canon) ==
    LET blockNameEnum ==
            Elements(At(fromCanonicalJson(canon), <<"properties", "name", "enum">>))
    IN  IF blockNameEnum # <<>> /\ Truthy(blockNameEnum[1])
        THEN blockNameEnum[1].s ELSE "Block"

\* Step 3: the definition name of each repeated fingerprint
RECURSIVE namesOfRepeated(_, _)
namesOfRepeated(usageCount, repeatedCanonToDefName) ==
    IF usageCount = <<>> THEN repeatedCanonToDefName
    ELSE namesOfRepeated(Tail(usageCount),
            IF IsRepeated(Head(usageCount).value)
            THEN MapSet(repeatedCanonToDefName, Head(usageCount).key,
                        blockNameOf(Head(usageCount).key))
            ELSE repeatedCanonToDefName)

\* Step 4: definitions[defName] = fromCanonicalJson(canon)
RECURSIVE definitionsOf(_, _)
definitionsOf(repeatedCanonToDefName, defs) ==
    IF repeatedCanonToDefName = <<>> THEN defs
    ELSE definitionsOf(Tail(repeatedCanonToDefName),
            SetKey(defs, Head(repeatedCanonToDefName).value,
                   fromCanonicalJson(Head(repeatedCanonToDefName).key)))

\* Step 5: each slot whose fingerprint has a name becomes a reference
RECURSIVE replaceRepeated(_, _, _, _)
replaceRepeated(root, locs, canons, names) ==
    IF locs = <<>> THEN root
    ELSE replaceRepeated(
            IF MapHas(names, Head(canons))
            THEN SetSlot(root, Head(locs), RefTo(MapGet(names, Head(canons))))
            ELSE root,
            Tail(locs), Tail(canons), names)

\* ExcelToSchemaGeneratorUtil.deduplicateBlocks: the root schema as it is
\* left, and the definitions returned
deduplicateBlocks(root) ==
    LET blockLocations == findAllBlockSchemas(root)
        canons == [j \in 1..Len(blockLocations) |->
                      toCanonicalJson(blockLocations[j].blockSchema)]
        usageCount == countUsage(canons, <<>>)
        repeatedCanonToDefName == namesOfRepeated(usageCount, <<>>)
    IN  [schema |-> replaceRepeated(root, blockLocations, canons, repeatedCanonToDefName),
         definitions |-> definitionsOf(repeatedCanonToDefName, JObj(<<>>))]

\* `${blockName}_${hash}`
Json_defName(canonical) ==
    At(parse(canonical), <<"properties", "name", "enum">>).e[1].s
        \o "_" \o ToString(hashOf(canonical))

\* The loop over definitionUsageCount: blockDefNames and definitions
RECURSIVE Json_namesOfRepeated(_, _)
Json_namesOfRepeated(definitionUsageCount, blockDefNames) ==
    IF definitionUsageCount = <<>> THEN blockDefNames
    ELSE Json_namesOfRepeated(Tail(definitionUsageCount),
            IF IsRepeated(Head(definitionUsageCount).value)
            THEN MapSet(blockDefNames, Head(definitionUsageCount).key,
                        Json_defName(Head(definitionUsageCount).key))
            ELSE blockDefNames)

RECURSIVE Json_definitionsOf(_, _)
Json_definitionsOf(blockDefNames, defs) ==
    IF blockDefNames = <<>> THEN defs
    ELSE Json_definitionsOf(Tail(blockDefNames),
            SetKey(defs, Head(blockDefNames).value,
                   parse(Head(blockDefNames).key)))

\* JsonToSchemaGeneratorUtil.deduplicateBlocks
Json_deduplicateBlocks(root) ==
    LET blockLocations == Json_findAllBlockSchemas(root)
        canonicals == [j \in 1..Len(blockLocations) |->
                          stringify(blockLocations[j].blockSchema)]
        definitionUsageCount == countUsage(canonicals, <<>>)
        blockDefNames == Json_namesOfRepeated(definitionUsageCount, <<>>)
    IN  [schema |-> replaceRepeated(root, blockLocations, canonicals, blockDefNames),
         definitions |-> Json_definitionsOf(blockDefNames, JObj(<<>>))]

---------------------------------------------------------------------------
(* ExcelToSchemaGeneratorUtil.parseBlocksInSheet, row by row, and the      *)
(* schema of the sheet built from the blocks it returns                    *)

MaxRows == 4

TextRow(texts) == [i \in 1..Len(texts) |-> JStr(texts[i])]

\* Scenario A: a block heading, its meta row and two field rows
ScenarioA ==
    <<TextRow(<<"employee_table">>),
      TextRow(<<"name", "null_allowed", "type">>),
      TextRow(<<"id", "No", "number">>),
      TextRow(<<"label", "Yes", "string">>)>>

\* The rows the sheets are made of: those of scenario A, a second block
\* heading and a blank row
RowChoices ==
    {ScenarioA[i] : i \in 1..4} \cup {TextRow(<<"address_list">>), <<>>}

NoBlock == [name |-> "", entity |-> "", fields |-> <<>>]
NoMeta == [key \in MetaKeys |-> -1]

lastRow == Len(sheetData) - 1

\* The outer loop on a row that starts no block
SkipRow ==
    /\ spc = "scan"
    /\ currentRow <= lastRow
    /\ ~isBlockHeading(RowAt(sheetData, currentRow))
    /\ currentRow' = currentRow + 1
    /\ UNCHANGED <<sheetData, blocks, block, metaCols, fields, sheetSchema, spc, notSheet>>

\* The outer loop on a block heading: the row after it is the meta row
StartBlock ==
    /\ spc = "scan"
    /\ currentRow <= lastRow
    /\ isBlockHeading(RowAt(sheetData, currentRow))
    /\ LET firstCellVal == cellText(Cell(RowAt(sheetData, currentRow), 0))
       IN  block' = [name |-> firstCellVal,
                     entity |-> IF endsWith(firstCellVal, "_list") THEN "list" ELSE "table",
                     fields |-> <<>>]
    /\ metaCols' = findMetaColumns(RowAt(sheetData, currentRow + 1))
    /\ currentRow' = currentRow + 2
    /\ fields' = <<>>
    /\ spc' = "fields"
    /\ UNCHANGED <<sheetData, blocks, sheetSchema, notSheet>>

\* block.fields = fields; blocks.push(block)
PushBlock ==
    /\ blocks' = Append(blocks, [block EXCEPT !.fields = fields])
    /\ block' = NoBlock
    /\ metaCols' = NoMeta
    /\ fields' = <<>>
    /\ spc' = "scan"
    /\ UNCHANGED <<sheetData, sheetSchema, notSheet>>

\* The inner loop on a field row
FieldRow ==
    /\ spc = "fields"
    /\ currentRow <= lastRow
    /\ ~isBlankRow(RowAt(sheetData, currentRow))
    /\ ~isBlockHeading(RowAt(sheetData, currentRow))
    /\ fields' = Append(fields, parseFieldRow(RowAt(sheetData, currentRow), metaCols))
    /\ currentRow' = currentRow + 1
    /\ UNCHANGED <<sheetData, blocks, block, metaCols, sheetSchema, spc, notSheet>>

\* The inner loop on a blank row: the row is consumed and the block ends
EndAtBlankRow ==
    /\ spc = "fields"
    /\ currentRow <= lastRow
    /\ isBlankRow(RowAt(sheetData, currentRow))
    /\ currentRow' = currentRow + 1
    /\ PushBlock

\* Mutant: the heading that ends the fields is consumed, as a blank row is
EndAtHeading_consumed ==
    /\ spc = "fields"
    /\ currentRow <= lastRow
    /\ ~isBlankRow(RowAt(sheetData, currentRow))
    /\ isBlockHeading(RowAt(sheetData, currentRow))
    /\ currentRow' = currentRow + 1
    /\ PushBlock

\* The inner loop on the heading of the next block: the row is left
EndAtHeading ==
    /\ spc = "fields"
    /\ currentRow <= lastRow
    /\ ~isBlankRow(RowAt(sheetData, currentRow))
    /\ isBlockHeading(RowAt(sheetData, currentRow))
    /\ currentRow' = currentRow
    /\ PushBlock

\* The inner loop past the last row
EndAtLastRow ==
    /\ spc = "fields"
    /\ currentRow > lastRow
    /\ currentRow' = currentRow
    /\ PushBlock

\* return blocks
ReturnBlocks ==
    /\ spc = "scan"
    /\ currentRow > lastRow
    /\ spc' = "parsed"
    /\ UNCHANGED <<sheetData, currentRow, blocks, block, metaCols, fields, sheetSchema, notSheet>>

parseBlocksInSheet ==
    \/ SkipRow
    \/ StartBlock
    \/ FieldRow
    \/ EndAtBlankRow
    \/ EndAtHeading
    \/ EndAtLastRow
    \/ ReturnBlocks

\* sheetModel.blocks = blocks, and later buildSheetSchema(sheetModel)
BuildSheet ==
    /\ spc = "parsed"
    /\ sheetSchema' = buildSheetSchema([name |-> "Sheet1", entity |-> "sheet", blocks |-> blocks])
    /\ spc' = "built"
    /\ UNCHANGED <<sheetData, currentRow, blocks, block, metaCols, fields, notSheet>>

SheetInit ==
    /\ sheetData \in UNION {[1..n -> RowChoices] : n \in 0..MaxRows}
    /\ currentRow = 0
    /\ blocks = <<>>
    /\ block = NoBlock
    /\ metaCols = NoMeta
    /\ fields = <<>>
    /\ sheetSchema = JNull
    /\ spc = "scan"

SheetIdle ==
    /\ sheetData = <<>>
    /\ currentRow = 0
    /\ blocks = <<>>
    /\ block = NoBlock
    /\ metaCols = NoMeta
    /\ fields = <<>>
    /\ sheetSchema = JNull
    /\ spc = "idle"

---------------------------------------------------------------------------
(* The schema of one block, by either front-end                            *)

MaxFields == 2

\* The numbers of rows of a table of the data: none, one, two
DataRowCounts == 0..2

Field(fieldName, nullAllowed, type) ==
    [fieldName |-> fieldName, nullAllowed |-> nullAllowed, type |-> type,
     minimum |-> "", maximum |-> "", minLength |-> "", maxLength |-> "",
     pattern |-> "", enumValues |-> "", description |-> "", examples |-> ""]

\* The fields a block model is made of: required, nullable, untyped, and one
\* that fills the constraint columns
FieldChoices ==
    {Field("id", "No", "number"),
     Field("label", "Yes", "string"),
     Field("city", "", ""),
     [Field("zip", "NO", "number") EXCEPT
        !.minimum = "0", !.maximum = "x", !.maxLength = "5",
        !.enumValues = "a, b", !.examples = "x"]}

SeqsUpTo(S, n) == UNION {[1..k -> S] : k \in 0..n}

ExcelBlockInputs ==
    {[name |-> h[1], entity |-> h[2], fields |-> f] :
        h \in {<<"employee_table", "table">>, <<"address_list", "list">>},
        f \in SeqsUpTo(FieldChoices, MaxFields)}

HeaderNames == <<"id", "label", "city", "zip">>

\* The values of the cells and of the list items of the data
JsonCells == {JNum(1), JStr("x"), JNull}

\* A cell of each kind deriveJsonSchemaType tells apart
KindCells == JsonCells \cup {JBool(TRUE), JArr(<<>>), JObj(<<>>)}

JsonItems ==
    {JObj(<<KV("street", JStr("x"))>>),
     JObj(<<KV("zip", JNum(1))>>),
     JObj(<<KV("street", JNull)>>),
     JObj(<<KV("id", JBool(TRUE)), KV("label", JStr("x"))>>)}

DataBlock(name, entity, header, rows, items) ==
    [name |-> name, entity |-> entity, header |-> header, rows |-> rows, items |-> items]

\* Tables of every width with complete rows, a table with a short row,
\* lists, and a block that is neither a table nor a list
JsonBlockInputs ==
    UNION {{DataBlock("employee_table", "table", SubSeq(HeaderNames, 1, n), rows, <<>>) :
                rows \in UNION {[1..k -> [1..n -> JsonCells]] : k \in DataRowCounts}} :
           n \in 0..MaxFields}
    \cup {DataBlock("employee_table", "table", <<"id", "label">>, <<<<JNum(1)>>>>, <<>>)}
    \cup {DataBlock("employee_table", "table", <<"id">>, rows, <<>>) :
                rows \in UNION {[1..k -> [1..1 -> KindCells]] : k \in DataRowCounts}}
    \cup {DataBlock("address_list", "list", <<>>, <<>>, items) :
                items \in SeqsUpTo(JsonItems, MaxFields)}
    \cup {DataBlock("sales_chart", "chart", <<>>, <<>>, <<>>)}

BlockInit ==
    /\ tbFront \in {"excel", "json"}
    /\ tbBlock \in IF tbFront = "excel" THEN ExcelBlockInputs ELSE JsonBlockInputs
    /\ tbOut = <<>>
    /\ tpc = "input"

BlockIdle ==
    /\ tbFront = ""
    /\ tbBlock = NoBlock
    /\ tbOut = <<>>
    /\ tpc = "idle"

\* The element buildSheetSchema maps a block model to
ExcelBuildBlock ==
    /\ tpc = "input"
    /\ tbFront = "excel"
    /\ tbOut' = buildSheetBlocks(<<tbBlock>>)
    /\ tpc' = "built"
    /\ UNCHANGED <<tbFront, tbBlock, notBlock>>

\* What generate pushes to blocksOneOf for a block of the data
JsonBuildBlock ==
    /\ tpc = "input"
    /\ tbFront = "json"
    /\ tbOut' = handleBlocks(<<tbBlock>>, <<>>)
    /\ tpc' = "built"
    /\ UNCHANGED <<tbFront, tbBlock, notBlock>>

BuildBlock == ExcelBuildBlock \/ JsonBuildBlock

---------------------------------------------------------------------------
(* parseBlocksInSheet on two blocks in a row                               *)

\* Sheets of two blocks in a row: each block is a heading, a meta row and up
\* to MaxBlockRows field rows; a row outside any block may come first, a
\* blank row may part the blocks, and a blank row may come last
MaxBlockRows == 2

BlockRows ==
    {<<heading, ScenarioA[2]>> \o rows :
        heading \in {ScenarioA[1], TextRow(<<"address_list">>)},
        rows \in SeqsUpTo({ScenarioA[3], ScenarioA[4]}, MaxBlockRows)}

AdjacentInit ==
    /\ \E before \in {<<>>, <<ScenarioA[3]>>}, between \in {<<>>, <<<<>>>>},
          after \in {<<>>, <<<<>>>>} :
         \E first \in BlockRows, second \in BlockRows :
            sheetData = before \o first \o between \o second \o after
    /\ currentRow = 0
    /\ blocks = <<>>
    /\ block = NoBlock
    /\ metaCols = NoMeta
    /\ fields = <<>>
    /\ sheetSchema = JNull
    /\ spc = "scan"

---------------------------------------------------------------------------
(* generate, in both front-ends: build the schema, deduplicate its blocks, *)
(* attach the definitions                                                  *)

MaxSlots == 4

\* The block models of the Excel front-end: a list, a list of the same name
\* and another shape, and a table
ExcelBlocks ==
    {[name |-> "address_list", entity |-> "list",
      fields |-> <<Field("street", "Yes", "string"), Field("zip", "No", "number")>>],
     [name |-> "address_list", entity |-> "list",
      fields |-> <<Field("street", "Yes", "string")>>],
     [name |-> "employee_table", entity |-> "table",
      fields |-> <<Field("id", "No", "number"), Field("label", "Yes", "string")>>]}

\* The blocks of the Json front-end: a list, a list of the same name whose
\* two types are exchanged, and a table
JsonBlocks ==
    {DataBlock("address_list", "list", <<>>, <<>>,
               <<JObj(<<KV("street", JStr("x"))>>), JObj(<<KV("zip", JNum(1))>>)>>),
     DataBlock("address_list", "list", <<>>, <<>>,
               <<JObj(<<KV("street", JNum(1))>>), JObj(<<KV("zip", JStr("x"))>>)>>),
     DataBlock("employee_table", "table", <<"id", "label">>,
               <<<<JNum(1), JStr("x")>>>>, <<>>)}

\* The ways n blocks in a row are dealt to sheets: the sheet of each block,
\* the first in sheet 1 and each next one in the same sheet or the next
Dealings(n) ==
    {d \in [1..n -> 1..n] :
        /\ n > 0 => d[1] = 1
        /\ \A j \in 1..(n - 1) : d[j + 1] \in {d[j], d[j] + 1}}

SheetName(s) == "Sheet" \o ToString(s)

\* The workbook of the blocks bs dealt by d, with `spare` sheets that hold
\* no block after them; a sheet without a block counts for one slot
Workbook(bs, d, spare) ==
    LET used == IF Len(bs) = 0 THEN 0 ELSE d[Len(bs)]
        members(s) == {j \in 1..Len(bs) : d[j] = s}
        first(s) == CHOOSE j \in members(s) : \A k \in members(s) : j <= k
    IN  [name |-> "book", entity |-> "workbook",
         sheets |-> [s \in 1..(used + spare) |->
                       [name |-> SheetName(s), entity |-> "sheet",
                        blocks |-> IF s > used THEN <<>>
                                   ELSE [i \in 1..Cardinality(members(s)) |->
                                            bs[first(s) + i - 1]]]]]

GenInit ==
    /\ frontEnd \in {"excel", "json"}
    /\ \E n \in 0..MaxSlots, spare \in 0..1 :
         /\ n + spare <= MaxSlots
         /\ \E d \in Dealings(n) :
              \E bs \in [1..n -> IF frontEnd = "excel" THEN ExcelBlocks ELSE JsonBlocks] :
                 workbook = Workbook(bs, d, spare)
    /\ schema = JNull
    /\ definitions = JNull
    /\ gerr = <<>>
    /\ gpc = "model"

GenIdle ==
    /\ frontEnd = ""
    /\ workbook = <<>>
    /\ schema = JNull
    /\ definitions = JNull
    /\ gerr = <<>>
    /\ gpc = "idle"

\* const schema = this.buildJsonSchema(workbookModel)
ExcelBuild ==
    /\ frontEnd = "excel"
    /\ gpc = "model"
    /\ schema' = buildJsonSchema(workbook)
    /\ gpc' = "built"
    /\ UNCHANGED <<frontEnd, workbook, definitions, gerr, notGen>>

\* const definitions = this.deduplicateBlocks(schema)
ExcelDeduplicate ==
    /\ frontEnd = "excel"
    /\ gpc = "built"
    /\ LET result == deduplicateBlocks(schema)
       IN  /\ schema' = result.schema
           /\ definitions' = result.definitions
    /\ gpc' = "deduplicated"
    /\ UNCHANGED <<frontEnd, workbook, gerr, notGen>>

\* if (Object.keys(definitions).length > 0) schema.definitions = definitions
Attach ==
    /\ schema' = IF Len(definitions.e) > 0
                 THEN SetKey(schema, "definitions", definitions) ELSE schema
    /\ gpc' = "done"
    /\ UNCHANGED <<frontEnd, workbook, definitions, gerr, notGen>>

ExcelAttach == frontEnd = "excel" /\ gpc = "deduplicated" /\ Attach

\* throw new Error('Invalid data: No sheets found.')
JsonNoSheets ==
    /\ frontEnd = "json"
    /\ gpc = "model"
    /\ Len(workbook.sheets) = 0
    /\ gerr' = <<"Invalid data: No sheets found.">>
    /\ gpc' = "thrown"
    /\ UNCHANGED <<frontEnd, workbook, schema, definitions, notGen>>

\* The sheets of the data that hold no block
Blockless(data) == {i \in 1..Len(data.sheets) : Len(data.sheets[i].blocks) = 0}

\* throw new Error(`Invalid data: No blocks found in sheet "${sheet.name}".`)
JsonNoBlocks ==
    /\ frontEnd = "json"
    /\ gpc = "model"
    /\ Blockless(workbook) # {}
    /\ LET i == CHOOSE i \in Blockless(workbook) : \A j \in Blockless(workbook) : i <= j
       IN  gerr' = <<"Invalid data: No blocks found in sheet \"",
                     workbook.sheets[i].name, "\".">>
    /\ gpc' = "thrown"
    /\ UNCHANGED <<frontEnd, workbook, schema, definitions, notGen>>

\* sheetSchemas and schema, when the data passes the validations
JsonBuild ==
    /\ frontEnd = "json"
    /\ gpc = "model"
    /\ Len(workbook.sheets) # 0
    /\ Blockless(workbook) = {}
    /\ schema' = inferSchema(workbook)
    /\ gpc' = "built"
    /\ UNCHANGED <<frontEnd, workbook, definitions, gerr, notGen>>

JsonDeduplicate ==
    /\ frontEnd = "json"
    /\ gpc = "built"
    /\ LET result == Json_deduplicateBlocks(schema)
       IN  /\ schema' = result.schema
           /\ definitions' = result.definitions
    /\ gpc' = "deduplicated"
    /\ UNCHANGED <<frontEnd, workbook, gerr, notGen>>

JsonAttach == frontEnd = "json" /\ gpc = "deduplicated" /\ Attach

generate ==
    \/ ExcelBuild
    \/ ExcelDeduplicate
    \/ ExcelAttach
    \/ JsonNoSheets
    \/ JsonNoBlocks
    \/ JsonBuild
    \/ JsonDeduplicate
    \/ JsonAttach

---------------------------------------------------------------------------
(* One field row: findMetaColumns on the meta-header row of its block,     *)
(* parseFieldRow on the row, buildFieldSchema on the field                 *)

\* A meta-header row with the label of each column
MetaRow(nullAllowed, type, bound) ==
    <<JStr("name"), JStr(nullAllowed), JStr(type), JStr(bound), JStr("maximum"),
      JStr("minLength"), JStr("maxLength")>>

\* All the columns; no null_allowed column; no type column; no minimum column
MetaRows ==
    {MetaRow("null_allowed", "Type", "minimum"),
     MetaRow("note", "type", "minimum"),
     MetaRow("null_allowed", "note", "minimum"),
     MetaRow("null_allowed", "type", "note")}

\* What the cells of a field row may hold; Undefined: the cell is empty
NullAllowedCells == {JStr("No"), JStr("NO"), JStr("no"), JStr("Yes"), Undefined}
TypeCells == {JStr("string"), JStr("number"), Undefined}
BoundCells == {JNum(0), JNum(5), JStr("0"), JStr("abc"), Undefined}

FieldInit ==
    /\ frMeta \in MetaRows
    /\ \E na \in NullAllowedCells, ty \in TypeCells :
         \E min \in BoundCells, max \in BoundCells, minLen \in BoundCells,
            maxLen \in BoundCells :
            frRow = <<JStr("label"), na, ty, min, max, minLen, maxLen>>
    /\ frField = <<>>
    /\ frSchema = JNull
    /\ fpc = "row"

FieldIdle ==
    /\ frMeta = <<>>
    /\ frRow = <<>>
    /\ frField = <<>>
    /\ frSchema = JNull
    /\ fpc = "idle"

\* const field = this.parseFieldRow(dataRow, metaCols)
ParseField ==
    /\ fpc = "row"
    /\ frField' = parseFieldRow(frRow, findMetaColumns(frMeta))
    /\ fpc' = "parsed"
    /\ UNCHANGED <<frMeta, frRow, frSchema, notField>>

\* buildFieldSchema(bf), as buildListBlockSchema and buildTableBlockSchema call it
BuildField ==
    /\ fpc = "parsed"
    /\ frSchema' = buildFieldSchema(frField)
    /\ fpc' = "built"
    /\ UNCHANGED <<frMeta, frRow, frField, notField>>

FieldNext == ParseField \/ BuildField

---------------------------------------------------------------------------
(* GeneratorUtil: the naming engine, on the labels the schemas carry       *)

\* camel case of a label
toCamelCase(label) ==
    CASE label = "address_list" -> "addressList"
      [] label = "employee_table" -> "employeeTable"
      [] label = "row_table" -> "rowTable"
      [] \E s \in 1..9 : label = "Sheet" \o ToString(s) ->
            "sheet" \o ToString(CHOOSE s \in 1..9 : label = "Sheet" \o ToString(s))
      [] OTHER -> label

\* the label with its first letter in upper case
capitalize(label) ==
    CASE label = "addressList" -> "AddressList"
      [] label = "employeeTable" -> "EmployeeTable"
      [] label = "rowTable" -> "RowTable" [] label = "employee" -> "Employee"
      [] \E s \in 1..9 : label = "sheet" \o ToString(s) ->
            "Sheet" \o ToString(CHOOSE s \in 1..9 : label = "sheet" \o ToString(s))
      [] label = "book" -> "Book" [] label = "id" -> "Id"
      [] label = "label" -> "Label" [] label = "street" -> "Street"
      [] label = "zip" -> "Zip" [] label = "workbook" -> "Workbook"
      [] label = "sheet" -> "Sheet" [] label = "table" -> "Table"
      [] label = "list" -> "List" [] label = "row" -> "Row"
      [] OTHER -> label

\* kebab case of a label or of a class name
toKebabCase(label) ==
    CASE label \in {"address_list", "AddressList"} -> "address-list"
      [] label \in {"employee_table", "EmployeeTable"} -> "employee-table"
      [] label = "EmployeeRow" -> "employee-row"
      [] label \in {"row_table", "RowTable"} -> "row-table"
      [] label = "RowRow" -> "row-row" [] label = "Employee" -> "employee"
      [] \E s \in 1..9 : label = "Sheet" \o ToString(s) ->
            "sheet" \o ToString(CHOOSE s \in 1..9 : label = "Sheet" \o ToString(s))
      [] OTHER -> label

\* The words an identifier may not be
ReservedWords == {"Class", "Function", "Object"}

\* the name, with the suffix of its category when it is empty or reserved
sanitizeName(name, suffix) ==
    IF name = "" \/ name \in ReservedWords THEN name \o suffix ELSE name

\* schema.properties[prop].enum[0], "" when there is none
getFirstEnum(nd, prop) ==
    LET enum == At(nd, <<"properties", prop, "enum">>)
    IN  IF enum.t = "array" /\ Len(enum.e) > 0 /\ enum.e[1].t = "string"
        THEN enum.e[1].s ELSE ""

\* The TypeScript name of one JSON Schema type name
TypeName(type) ==
    CASE type = "string" -> "string" [] type = "number" -> "number"
      [] type = "boolean" -> "boolean" [] type = "null" -> "null"
      [] type = "object" -> "JSONObject" [] type = "array" -> "JSONArray"
      [] OTHER -> "any"

\* The TypeScript type of a `type` keyword: the names of a union, in order
getTypeScriptType(type) ==
    CASE type.t = "string" -> <<TypeName(type.s)>>
      [] type.t = "array"  -> [i \in 1..Len(type.e) |-> TypeName(type.e[i].s)]
      [] OTHER             -> <<"any">>

\* blockClassName.replace(/Table$/, 'Row')
TableToRow(className) ==
    CASE className = "EmployeeTable" -> "EmployeeRow"
      [] className = "RowTable" -> "RowRow"
      [] className = "Table" -> "Row"
      [] OTHER -> className

\* className.replace(/Row/, 'Table')
RowToTable(className) ==
    CASE className = "EmployeeRow" -> "EmployeeTable"
      [] className = "RowRow" -> "TableRow"
      [] className = "Row" -> "Table"
      [] OTHER -> className

\* toKebabCase(className).replace(/row/, 'table')
KebabRowToTable(name) ==
    CASE name = "employee-row" -> "employee-table"
      [] name = "row-row" -> "table-row"
      [] name = "Row" -> "Table"
      [] OTHER -> name

\* /^[0-9]/.test(name)
startsWithDigit(name) ==
    \E d \in 0..9 : \E rest \in {"", "st", "nd", "rd", "th"} : name = ToString(d) \o rest

\* The elements of a list, each once, in the order of their first places
RECURSIVE Unique(_)
Unique(list) ==
    IF list = <<>> THEN <<>>
    ELSE LET rest == Unique(SelectSeq(Tail(list), LAMBDA x : x # Head(list)))
         IN  <<Head(list)>> \o rest

---------------------------------------------------------------------------
(* FileUtil and the values the generators read                             *)
(* The files under outputDir are a function from paths to contents.  A     *)
(* path is the sequence of its segments, the file's extension last.  The   *)
(* content of a class file is the record of what its template is filled    *)
(* with.                                                                   *)

\* Mutant: the file is opened with flag 'a', the text is added to what the
\* file holds
write_append(fs, filePath, content) ==
    (filePath :> IF filePath \in DOMAIN fs
                 THEN [kind |-> "appended", old |-> fs[filePath], new |-> content]
                 ELSE content) @@ fs

\* FileUtil.write(filePath, content): flag 'w', an existing file is overwritten
write(fs, filePath, content) == (filePath :> content) @@ fs

ClassFile(dir, className) == dir \o <<className, ".ts">>

\* SchemaRefResolverUtil.resolveIfRef on a node held by value: the node it
\* returns, or the message of the Error it throws
RECURSIVE Deref(_, _)
Deref(v, root) ==
    IF v.t # "object" \/ ~Truthy(Get(v, "$ref"))
    THEN [ok |-> TRUE, v |-> v, err |-> <<>>]
    ELSE LET ref == Text(Get(v, "$ref"))
         IN  IF ~startsWith(ref)
             THEN [ok |-> FALSE, v |-> Undefined,
                   err |-> <<"Unsupported $ref format (expected local ref): ">> \o ref]
             ELSE LET found == resolvePointer(substring(ref), root)
                  IN  IF found.ok THEN Deref(At(root, found.at), root)
                      ELSE [ok |-> FALSE, v |-> Undefined,
                            err |-> <<"Could not resolve pointer: ">> \o substring(ref)]

\* What a run has made so far: the class names, the files, and the message
\* of the Error that ended it
Made(names, fs, e) == [names |-> names, files |-> fs, err |-> e]

\* Mutant: the class name is put at the head of the list
Push_unshift(names, category, className) ==
    [names EXCEPT ![category] = <<className>> \o @]

\* classNames.<category>.push(className)
Push(names, category, className) ==
    [names EXCEPT ![category] = Append(@, className)]

\* `const x = value; ...`: what Body makes of the value, computed once
With(value, Body(_)) == CHOOSE result \in {Body(x) : x \in {value}} : TRUE

---------------------------------------------------------------------------
(* TableGeneratorUtil and ListGeneratorUtil                                *)

\* headerItems.map(item => item.enum?.[0]); the text of undefined when an
\* item has no enum
headerEnum(blockSchema) ==
    LET headerItems == At(blockSchema, <<"properties", "header", "items">>)
    IN  IF headerItems.t = "array"
        THEN [i \in 1..Len(headerItems.e) |->
                LET enum == Get(headerItems.e[i], "enum")
                IN  IF enum.t = "array" /\ Len(enum.e) > 0
                    THEN enum.e[1].s ELSE "undefined"]
        ELSE <<>>

\* blockSchema.properties?.rows?.items?.items?.[index]?.type
rowItemType(blockSchema, index) ==
    LET rowItems == At(blockSchema, <<"properties", "rows", "items", "items">>)
    IN  IF rowItems.t = "array" /\ index < Len(rowItems.e)
        THEN Get(rowItems.e[index + 1], "type") ELSE Undefined

\* Mutant: the accessors count their slots from 1
gettersSetters_fromOne(names, blockSchema) ==
    [i \in 1..Len(names) |->
        LET camelCaseHeader == toCamelCase(names[i])
        IN  [get  |-> "get" \o capitalize(camelCaseHeader),
             set  |-> "set" \o capitalize(camelCaseHeader),
             var  |-> IF startsWithDigit(camelCaseHeader)
                      THEN "_" \o camelCaseHeader ELSE camelCaseHeader,
             slot |-> i,
             type |-> getTypeScriptType(rowItemType(blockSchema, i - 1))]]

\* One getter/setter pair per header name: `return this[index] as type` and
\* `this[index] = name`, index counted from 0
gettersSetters(names, blockSchema) ==
    [i \in 1..Len(names) |->
        LET index == i - 1
            camelCaseHeader == toCamelCase(names[i])
            validVarName == IF startsWithDigit(camelCaseHeader)
                            THEN "_" \o camelCaseHeader ELSE camelCaseHeader
        IN  [get  |-> "get" \o capitalize(camelCaseHeader),
             set  |-> "set" \o capitalize(camelCaseHeader),
             var  |-> validVarName,
             slot |-> index,
             type |-> getTypeScriptType(rowItemType(blockSchema, index))]]

\* The names of @org-quicko/core the accessors mention
orgQuickoImports(accessors) ==
    SelectSeq(<<"JSONObject", "JSONArray">>,
              LAMBDA n : \E i \in 1..Len(accessors) :
                            \E j \in 1..Len(accessors[i].type) : accessors[i].type[j] = n)

\* TableGeneratorUtil.generate: the table class and its row class
TableGenerate(blockSchema, blockName, made, isCommon) ==
    LET blockClassName == sanitizeName(capitalize(toCamelCase(blockName)), "Table")
        names == headerEnum(blockSchema)
        tableDirectory == IF isCommon
                          THEN <<"tables", "common", toKebabCase(blockName)>>
                          ELSE <<"tables", toKebabCase(blockName)>>
        rowClassName == TableToRow(blockClassName)
        tableClass == [kind |-> "table", name |-> blockName,
                       className |-> blockClassName, header |-> names,
                       row |-> rowClassName]
        accessors == gettersSetters(names, blockSchema)
        rowClass == [kind |-> "row", className |-> rowClassName,
                     imports |-> orgQuickoImports(accessors),
                     accessors |-> accessors]
    IN  Made(Push(Push(made.names, "table", blockClassName), "row", rowClassName),
             write(write(made.files, ClassFile(tableDirectory, blockClassName), tableClass),
                   ClassFile(tableDirectory, rowClassName), rowClass),
             made.err)

\* ListGeneratorUtil.generate: the list class, none when the schema has no
\* item properties
ListGenerate(blockSchema, blockName, made, isCommon) ==
    LET listDirectory == IF isCommon
                         THEN <<"lists", "common", toKebabCase(blockName)>>
                         ELSE <<"lists", toKebabCase(blockName)>>
        className == sanitizeName(capitalize(toCamelCase(blockName)), "List")
        properties == At(blockSchema, <<"properties", "items", "items", "properties">>)
        entries == IF properties.t = "object" THEN properties.e ELSE <<>>
        accessors ==
            [i \in 1..Len(entries) |->
                LET camelKey == toCamelCase(entries[i].k)
                    type == getTypeScriptType(Get(entries[i].v, "type"))
                IN  [add      |-> "add" \o capitalize(camelKey),
                     valueOf  |-> "valueOf" \o capitalize(camelKey),
                     key      |-> entries[i].k,
                     var      |-> IF startsWithDigit(camelKey)
                                  THEN "_" \o camelKey ELSE camelKey,
                     type     |-> type,
                     nullable |-> \E j \in 1..Len(type) : type[j] = "null"]]
        listClass == [kind |-> "list", name |-> blockName, className |-> className,
                      accessors |-> accessors]
        pushed == Push(made.names, "list", className)
    IN  IF ~Truthy(properties) THEN Made(pushed, made.files, made.err)
        ELSE Made(pushed, write(made.files, ClassFile(listDirectory, className), listClass),
                  made.err)

---------------------------------------------------------------------------
(* SheetGeneratorUtil                                                      *)

ErrBlocks == <<"Invalid JSON Schema: \"blocks\" definition not found or malformed.">>
ErrBlockItems == <<"Invalid JSON Schema: \"blocks.items\" not found.">>
ErrBlockOneOf == <<"Invalid JSON Schema: \"blocks.items.oneOf\" not found or not an array.">>
ErrSheets == <<"Invalid JSON Schema: \"sheets\" definition not found or malformed.">>

\* Mutant: the test of blocks.items throws the message of the test of blocks
SheetParts_sameMessage(sheet, root) ==
    With(Deref(sheet, root), LAMBDA resolved :
    With(Deref(At(resolved.v, <<"properties", "blocks">>), root), LAMBDA blocksSchema :
    With(Deref(Get(blocksSchema.v, "items"), root), LAMBDA blockItems :
    With(Deref(Get(blockItems.v, "oneOf"), root), LAMBDA blockOneOf :
        [sheetSchema |-> resolved.v,
         blockOneOf  |-> Elements(blockOneOf.v),
         err |-> IF ~Truthy(blocksSchema.v) \/ Get(blocksSchema.v, "type") # JStr("array")
                 THEN ErrBlocks
                 ELSE IF ~Truthy(blockItems.v) THEN ErrBlocks
                 ELSE IF blockOneOf.v.t # "array" THEN ErrBlockOneOf
                 ELSE <<>>]))))

\* The head of SheetGeneratorUtil.generate: the resolved sheet schema and its
\* blocks.items.oneOf, or the message of the Error thrown
SheetParts(sheet, root) ==
    With(Deref(sheet, root), LAMBDA resolved :
    With(Deref(At(resolved.v, <<"properties", "blocks">>), root), LAMBDA blocksSchema :
    With(Deref(Get(blocksSchema.v, "items"), root), LAMBDA blockItems :
    With(Deref(Get(blockItems.v, "oneOf"), root), LAMBDA blockOneOf :
        [sheetSchema |-> resolved.v,
         blockOneOf  |-> Elements(blockOneOf.v),
         err |-> IF ~resolved.ok THEN resolved.err
                 ELSE IF ~blocksSchema.ok THEN blocksSchema.err
                 ELSE IF ~Truthy(blocksSchema.v) \/ Get(blocksSchema.v, "type") # JStr("array")
                 THEN ErrBlocks
                 ELSE IF ~blockItems.ok THEN blockItems.err
                 ELSE IF ~Truthy(blockItems.v) THEN ErrBlockItems
                 ELSE IF ~blockOneOf.ok THEN blockOneOf.err
                 ELSE IF blockOneOf.v.t # "array" THEN ErrBlockOneOf
                 ELSE <<>>]))))

\* sanitizeName(capitalize(toCamelCase(name)), entity === 'list' ? 'List' : 'Table')
BlockClassName(blockSchema) ==
    sanitizeName(capitalize(toCamelCase(getFirstEnum(blockSchema, "name"))),
                 IF getFirstEnum(blockSchema, "@entity") = "list" THEN "List" ELSE "Table")

\* blockOneOf.forEach: the classes of the blocks, one block after the other
RECURSIVE generateBlocks(_, _, _, _)
generateBlocks(root, blockOneOf, i, made) ==
    IF i > Len(blockOneOf) \/ made.err # <<>> THEN made
    ELSE With(Deref(blockOneOf[i], root), LAMBDA blockSchema :
         LET isCommon == Truthy(Get(blockOneOf[i], "$ref"))
             blockNameEnum == getFirstEnum(blockSchema.v, "name")
             blockEntityEnum == getFirstEnum(blockSchema.v, "@entity")
         IN  IF ~blockSchema.ok THEN Made(made.names, made.files, blockSchema.err)
             ELSE With(IF blockEntityEnum = "table"
                       THEN TableGenerate(blockSchema.v, blockNameEnum, made, isCommon)
                       ELSE IF blockEntityEnum = "list"
                       THEN ListGenerate(blockSchema.v, blockNameEnum, made, isCommon)
                       ELSE made,
                       LAMBDA next : generateBlocks(root, blockOneOf, i + 1, next)))

blocksSubtypes(root, blockOneOf) ==
    [i \in 1..Len(blockOneOf) |->
        LET blockSchema == Deref(blockOneOf[i], root).v
        IN  [value |-> BlockClassName(blockSchema),
             name  |-> getFirstEnum(blockSchema, "name")]]

blocksImports(root, blockOneOf) ==
    [i \in 1..Len(blockOneOf) |->
        LET blockSchema == Deref(blockOneOf[i], root).v
            importDir == <<IF getFirstEnum(blockSchema, "@entity") = "table"
                           THEN "tables" ELSE "lists">>
                         \o (IF Truthy(Get(blockOneOf[i], "$ref")) THEN <<"common">> ELSE <<>>)
        IN  [class |-> BlockClassName(blockSchema),
             from  |-> <<"..", "..">> \o importDir
                       \o <<toKebabCase(getFirstEnum(blockSchema, "name")),
                            BlockClassName(blockSchema)>>]]

\* Mutant: the constructor names the class of the slot as written, a
\* pointer not followed
blocksPushed_unresolved(root, blockOneOf) ==
    [i \in 1..Len(blockOneOf) |-> BlockClassName(blockOneOf[i])]

\* The constructor: this.blocks.push(new bClassName()), slot by slot
blocksPushed(root, blockOneOf) ==
    [i \in 1..Len(blockOneOf) |-> BlockClassName(Deref(blockOneOf[i], root).v)]

\* The add/get pair of each slot
blocksMethods(root, blockOneOf) ==
    [i \in 1..Len(blockOneOf) |->
        LET blk == Deref(blockOneOf[i], root).v
            bName == getFirstEnum(blk, "name")
        IN  [add   |-> "add" \o capitalize(toCamelCase(bName)),
             get   |-> "get" \o capitalize(toCamelCase(bName)),
             param |-> getFirstEnum(blk, "@entity"),
             type  |-> BlockClassName(blk),
             key   |-> bName]]

\* SheetGeneratorUtil.generate: the classes of the sheet's blocks, then the
\* class of the sheet
SheetGenerate(root, sheet, made) ==
    With(SheetParts(sheet, root), LAMBDA parts :
    LET sheetNameEnum == getFirstEnum(parts.sheetSchema, "name")
        sheetClassName == sanitizeName(capitalize(toCamelCase(sheetNameEnum)), "Sheet")
        sheetClassContent ==
            [kind |-> "sheet", name |-> sheetNameEnum, className |-> sheetClassName,
             imports  |-> blocksImports(root, parts.blockOneOf),
             subTypes |-> blocksSubtypes(root, parts.blockOneOf),
             pushed   |-> blocksPushed(root, parts.blockOneOf),
             methods  |-> blocksMethods(root, parts.blockOneOf)]
    IN  IF parts.err # <<>> THEN Made(made.names, made.files, parts.err)
        ELSE With(generateBlocks(root, parts.blockOneOf, 1,
                                 Made(Push(made.names, "sheet", sheetClassName),
                                      made.files, <<>>)),
                  LAMBDA after :
                    IF after.err # <<>> THEN after
                    ELSE Made(after.names,
                              write(after.files,
                                    ClassFile(<<"sheets", toKebabCase(sheetNameEnum)>>,
                                              sheetClassName),
                                    sheetClassContent),
                              <<>>)))

---------------------------------------------------------------------------
(* WorkbookGeneratorUtil                                                   *)

SheetClassName(sheetNode) ==
    sanitizeName(capitalize(toCamelCase(getFirstEnum(sheetNode, "name"))), "Sheet")

\* WorkbookGeneratorUtil.generate: the class of the workbook
WorkbookGenerate(root, sheets, made) ==
    LET workbookNameEnum == getFirstEnum(root, "name")
        workbookClassName ==
            sanitizeName(capitalize(toCamelCase(workbookNameEnum)), "Workbook")
        workbookClass ==
            [kind |-> "workbook", name |-> workbookNameEnum,
             className |-> workbookClassName,
             imports  |-> [i \in 1..Len(sheets) |->
                             [class |-> SheetClassName(sheets[i]),
                              from  |-> <<"..", "sheets",
                                          toKebabCase(getFirstEnum(sheets[i], "name")),
                                          SheetClassName(sheets[i])>>]],
             subTypes |-> [i \in 1..Len(sheets) |->
                             [value |-> SheetClassName(sheets[i]),
                              name  |-> getFirstEnum(sheets[i], "name")]],
             pushed   |-> [i \in 1..Len(sheets) |-> SheetClassName(sheets[i])],
             methods  |-> [i \in 1..Len(sheets) |->
                             LET sheetNameEnum == getFirstEnum(sheets[i], "name")
                             IN  [add   |-> "add" \o capitalize(toCamelCase(sheetNameEnum)),
                                  get   |-> "get" \o capitalize(toCamelCase(sheetNameEnum)),
                                  param |-> "sheet",
                                  type  |-> SheetClassName(sheets[i]),
                                  key   |-> sheetNameEnum]]]
    IN  Made(Push(made.names, "workbook", workbookClassName),
             write(made.files, ClassFile(<<"workbook">>, workbookClassName), workbookClass),
             made.err)

---------------------------------------------------------------------------
(* MixinGeneratorUtil and the index file                                   *)

Categories == <<"workbook", "sheet", "table", "list", "row">>

\* The import of a class in the mixin of its category
MixinImport(className, entityType, common) ==
    [class |-> className,
     from  |->
        CASE entityType = "workbook" -> <<"..", "workbook", className>>
          [] entityType = "sheet" -> <<"..", "sheets", toKebabCase(className), className>>
          [] entityType = "table" ->
                IF className \in common
                THEN <<"..", "tables", "common", toKebabCase(className), className>>
                ELSE <<"..", "tables", toKebabCase(className), className>>
          [] entityType = "list" ->
                IF className \in common
                THEN <<"..", "lists", "common", toKebabCase(className), className>>
                ELSE <<"..", "lists", toKebabCase(className), className>>
          [] OTHER ->
                IF RowToTable(className) \in common
                THEN <<"..", "tables", "common",
                       KebabRowToTable(toKebabCase(className)), className>>
                ELSE <<"..", "tables", KebabRowToTable(toKebabCase(className)), className>>]

\* Mutant: the registry lists the first class of the category only
generateMixin_firstOnly(names, entityType, fileName, fs, common) ==
    IF Len(names) = 0 THEN fs
    ELSE write(fs, ClassFile(<<"mixins">>, fileName),
               [kind      |-> "mixin",
                entity    |-> entityType,
                className |-> capitalize(entityType) \o "Mixin",
                imports   |-> <<MixinImport(names[1], entityType, common)>>,
                subtypes  |-> <<names[1]>>])

\* generateMixin: no file for a category without names
generateMixin(names, entityType, fileName, fs, common) ==
    IF Len(names) = 0 THEN fs
    ELSE write(fs, ClassFile(<<"mixins">>, fileName),
               [kind      |-> "mixin",
                entity    |-> entityType,
                className |-> capitalize(entityType) \o "Mixin",
                imports   |-> Unique([i \in 1..Len(names) |->
                                        MixinImport(names[i], entityType, common)]),
                subtypes  |-> Unique(names)])

\* MixinGeneratorUtil.generate
MixinGenerate(names, fs, common) ==
    LET f1 == generateMixin(names.workbook, "workbook", "WorkbookMixin", fs, {})
        f2 == generateMixin(names.sheet, "sheet", "SheetMixin", f1, {})
        f3 == generateMixin(names.table, "table", "TableMixin", f2, common)
        f4 == generateMixin(names.list, "list", "ListMixin", f3, common)
    IN  generateMixin(names.row, "row", "RowMixin", f4, common)

Subfolders == {"workbook", "sheets", "tables", "lists", "mixins"}

\* generateIndexFile: one export per .ts file under the subfolders, index
\* files apart, sorted.  The sorted list of distinct lines is given by the
\* set of the lines.
generateIndexFile(fs) ==
    LET listed == {p \in DOMAIN fs :
                      /\ Len(p) > 2
                      /\ p[1] \in Subfolders
                      /\ p[Len(p)] = ".ts"
                      /\ p[Len(p) - 1] # "index"}
    IN  write(fs, <<"index", ".ts">>,
              [kind |-> "index", exports |-> {SubSeq(p, 1, Len(p) - 1) : p \in listed}])

\* The class names of the blocks a sheet's slots point at
CommonOf(root, sheet) ==
    LET blockOneOf == SheetParts(sheet, root).blockOneOf
    IN  {BlockClassName(Deref(blockOneOf[i], root).v) :
            i \in {j \in 1..Len(blockOneOf) : Truthy(Get(blockOneOf[j], "$ref"))}}

---------------------------------------------------------------------------
(* ObjectGeneratorUtil.generate(schema, outputDir): the schemas it is run  *)
(* on are those ExcelToSchemaGeneratorUtil.generate returns, whole or with *)
(* one part of the sheets or of one sheet missing or ill-typed             *)

MaxObjSlots == 2

NoClassNames ==
    [workbook |-> <<>>, sheet |-> <<>>, table |-> <<>>, list |-> <<>>, row |-> <<>>]

ObjBlocks ==
    ExcelBlocks
    \cup {[name |-> "employee_table", entity |-> "table",
           fields |-> <<Field("id", "No", "number")>>]}

\* ExcelToSchemaGeneratorUtil.generate, from the workbook model on
ExcelSchemaOf(wb) ==
    LET result == deduplicateBlocks(buildJsonSchema(wb))
    IN  IF Len(result.definitions.e) > 0
        THEN SetKey(result.schema, "definitions", result.definitions)
        ELSE result.schema

RemoveKey(o, k) == JObj(SelectSeq(o.e, LAMBDA e : e.k # k))

RECURSIVE RemovePath(_, _)
RemovePath(o, path) ==
    IF Len(path) = 1 THEN RemoveKey(o, path[1])
    ELSE SetKey(o, Head(path), RemovePath(Get(o, Head(path)), Tail(path)))

WorkbookDamages == {"sheets absent", "sheets no array", "sheets no items"}
SheetDamages ==
    {"blocks absent", "blocks no array", "items absent", "oneOf absent", "oneOf no array"}

DamagedSheet(sheet, what) ==
    CASE what = "blocks absent" -> RemovePath(sheet, <<"properties", "blocks">>)
      [] what = "blocks no array" ->
            SetPath(sheet, <<"properties", "blocks", "type">>, JStr("object"))
      [] what = "items absent" -> RemovePath(sheet, <<"properties", "blocks", "items">>)
      [] what = "oneOf absent" -> RemovePath(sheet, BlocksPath)
      [] what = "oneOf no array" -> SetPath(sheet, BlocksPath, JObj(<<>>))

\* The schema with the damage `what`, done to sheet k when it is one of a sheet
Damaged(root, what, k) ==
    CASE what = "none" -> root
      [] what = "sheets absent" -> RemovePath(root, <<"properties", "sheets">>)
      [] what = "sheets no array" ->
            SetPath(root, <<"properties", "sheets", "type">>, JStr("object"))
      [] what = "sheets no items" -> RemovePath(root, <<"properties", "sheets", "items">>)
      [] OTHER ->
            LET sheets == Elements(At(root, SheetsPath))
            IN  SetPath(root, SheetsPath,
                        JArr([i \in 1..Len(sheets) |->
                                IF i = k THEN DamagedSheet(sheets[i], what)
                                ELSE sheets[i]]))

\* A file the output directory holds before the first run
StaleFile == <<"lists", "notes", "Notes", ".ts">>
StaleFiles == [p \in {StaleFile} |-> [kind |-> "notes"]]

ObjInit ==
    /\ \E n \in 0..MaxObjSlots, spare \in 0..1 :
         /\ n + spare <= MaxObjSlots
         /\ \E d \in Dealings(n) : \E bs \in [1..n -> ObjBlocks] :
              LET made == ExcelSchemaOf(Workbook(bs, d, spare))
                  count == Len(Elements(At(made, SheetsPath)))
              IN  \/ oSchema = made
                  \/ \E what \in WorkbookDamages : oSchema = Damaged(made, what, 0)
                  \/ \E what \in SheetDamages, k \in 1..count :
                        oSchema = Damaged(made, what, k)
    /\ files \in {<<>>, StaleFiles}
    /\ oSheets = <<>>
    /\ oSheet = 0
    /\ classNames = NoClassNames
    /\ commonBlocks = {}
    /\ oerr = <<>>
    /\ oRun = 1
    /\ firstRun = <<>>
    /\ opc = "start"

\* schema.properties?.sheets
sheetsSchema == At(oSchema, <<"properties", "sheets">>)

SheetsMalformed ==
    \/ ~Truthy(sheetsSchema)
    \/ Get(sheetsSchema, "type") # JStr("array")
    \/ ~Truthy(Get(sheetsSchema, "items"))

\* throw new Error(`Invalid JSON Schema: "sheets" definition not found or malformed.`)
ThrowSheets ==
    /\ opc = "start"
    /\ SheetsMalformed
    /\ oerr' = ErrSheets
    /\ opc' = "thrown"
    /\ UNCHANGED <<oSchema, oSheets, oSheet, classNames, commonBlocks, files, oRun,
                   firstRun, notObj>>

\* const sheetSchemas = sheetsSchema.items.oneOf || [sheetsSchema.items]
ReadSheets ==
    /\ opc = "start"
    /\ ~SheetsMalformed
    /\ LET items == Get(sheetsSchema, "items")
       IN  oSheets' = IF Truthy(Get(items, "oneOf"))
                      THEN Elements(Get(items, "oneOf")) ELSE <<items>>
    /\ classNames' = NoClassNames
    /\ opc' = "workbook"
    /\ UNCHANGED <<oSchema, oSheet, commonBlocks, files, oerr, oRun, firstRun, notObj>>

\* WorkbookGeneratorUtil.generate(schema, sheetSchemas, workbookDir, classNames)
GenerateWorkbook ==
    /\ opc = "workbook"
    /\ \E made \in {WorkbookGenerate(oSchema, oSheets, Made(classNames, files, <<>>))} :
         /\ classNames' = made.names
         /\ files' = made.files
    /\ oSheet' = 1
    /\ opc' = "sheets"
    /\ UNCHANGED <<oSchema, oSheets, commonBlocks, oerr, oRun, firstRun, notObj>>

SheetMade == SheetGenerate(oSchema, oSheets[oSheet], Made(classNames, files, <<>>))

\* SheetGeneratorUtil.generate on the next sheet
GenerateSheet ==
    /\ opc = "sheets"
    /\ oSheet <= Len(oSheets)
    /\ \E made \in {SheetMade} :
         /\ made.err = <<>>
         /\ classNames' = made.names
         /\ files' = made.files
    /\ oSheet' = oSheet + 1
    /\ UNCHANGED <<oSchema, oSheets, commonBlocks, oerr, oRun, firstRun, opc, notObj>>

\* Mutant: a run that throws takes back what it has written
ThrowInSheet_rollback ==
    /\ opc = "sheets"
    /\ oSheet <= Len(oSheets)
    /\ \E made \in {SheetMade} :
         /\ made.err # <<>>
         /\ oerr' = made.err
    /\ files' = <<>>
    /\ opc' = "thrown"
    /\ UNCHANGED <<oSchema, oSheets, oSheet, classNames, commonBlocks, oRun, firstRun, notObj>>

\* SheetGeneratorUtil.generate throws: generate ends with what was written
ThrowInSheet ==
    /\ opc = "sheets"
    /\ oSheet <= Len(oSheets)
    /\ \E made \in {SheetMade} :
         /\ made.err # <<>>
         /\ files' = made.files
         /\ oerr' = made.err
    /\ opc' = "thrown"
    /\ UNCHANGED <<oSchema, oSheets, oSheet, classNames, commonBlocks, oRun, firstRun, notObj>>

\* The second pass over the sheets: the blocks reached through a pointer.
\* Its throws repeat those of SheetGeneratorUtil.generate, which came first.
CollectCommonBlocks ==
    /\ opc = "sheets"
    /\ oSheet > Len(oSheets)
    /\ commonBlocks' = UNION {CommonOf(oSchema, oSheets[i]) : i \in 1..Len(oSheets)}
    /\ opc' = "mixins"
    /\ UNCHANGED <<oSchema, oSheets, oSheet, classNames, files, oerr, oRun, firstRun, notObj>>

\* MixinGeneratorUtil.generate(mixinsDir, classNames, commonBlocks)
GenerateMixins ==
    /\ opc = "mixins"
    /\ files' = MixinGenerate(classNames, files, commonBlocks)
    /\ opc' = "index"
    /\ UNCHANGED <<oSchema, oSheets, oSheet, classNames, commonBlocks, oerr, oRun,
                   firstRun, notObj>>

\* this.generateIndexFile(baseDir, ...)
GenerateIndex ==
    /\ opc = "index"
    /\ files' = generateIndexFile(files)
    /\ opc' = "done"
    /\ UNCHANGED <<oSchema, oSheets, oSheet, classNames, commonBlocks, oerr, oRun,
                   firstRun, notObj>>

\* generate is called again with the same schema and the same outputDir
RunAgain ==
    /\ opc \in {"done", "thrown"}
    /\ oRun = 1
    /\ firstRun' = files
    /\ oRun' = 2
    /\ oSheets' = <<>>
    /\ oSheet' = 0
    /\ classNames' = NoClassNames
    /\ commonBlocks' = {}
    /\ oerr' = <<>>
    /\ opc' = "start"
    /\ UNCHANGED <<oSchema, files, notObj>>

ObjectGenerate ==
    \/ ThrowSheets
    \/ ReadSheets
    \/ GenerateWorkbook
    \/ GenerateSheet
    \/ ThrowInSheet
    \/ CollectCommonBlocks
    \/ GenerateMixins
    \/ GenerateIndex
    \/ RunAgain

ObjIdle ==
    /\ oSchema = JNull
    /\ oSheets = <<>>
    /\ oSheet = 0
    /\ classNames = NoClassNames
    /\ commonBlocks = {}
    /\ files = <<>>
    /\ oerr = <<>>
    /\ oRun = 0
    /\ firstRun = <<>>
    /\ opc = "idle"

---------------------------------------------------------------------------
(* The commands excel-to-schema, json-to-schema and schema-to-objects      *)
(* What lies at the input path is an entry: a file, with its extension and *)
(* whether the generator throws on it, or a directory with its entries in  *)
(* the order readdirSync lists them, or nothing.  A file of the walk is    *)
(* named by the positions that lead to it.                                 *)

MaxEntries == 2

Commands == {"excel-to-schema", "json-to-schema", "schema-to-objects"}

FileEntry(ext, throws) == [kind |-> "file", ext |-> ext, throws |-> throws]
DirEntry(entries) == [kind |-> "dir", entries |-> entries]
Missing == [kind |-> "missing"]

FileEntries == {FileEntry(ext, throws) : ext \in {"xlsx", "json"}, throws \in BOOLEAN}
InnerDirs == {DirEntry(es) : es \in SeqsUpTo(FileEntries, MaxEntries - 1)}

\* inputFile.endsWith('.xlsx') || inputFile.endsWith('.xls'), or
\* inputFile.endsWith('.json')
RightExtension(cmd, entry) ==
    IF cmd = "excel-to-schema" THEN entry.ext = "xlsx" ELSE entry.ext = "json"

CliInit ==
    /\ command \in Commands
    /\ \/ inputPath = Missing
       \/ inputPath \in FileEntries
       \/ \E es \in SeqsUpTo(FileEntries \cup InnerDirs, MaxEntries) : inputPath = DirEntry(es)
    /\ outputOk \in BOOLEAN
    /\ pending = <<>>
    /\ visited = <<>>
    /\ exitCode = -1
    /\ bpc = "start"

\* if (!fs.existsSync(inputPath)) { console.error(...); process.exit(1); }
InputMissing ==
    /\ bpc = "start"
    /\ inputPath.kind = "missing"
    /\ exitCode' = 1
    /\ bpc' = "done"
    /\ UNCHANGED <<command, inputPath, outputOk, pending, visited, notCli>>

\* The output directory is there or is made; the walk starts at the input path
OutputReady ==
    /\ bpc = "start"
    /\ inputPath.kind # "missing"
    /\ outputOk
    /\ pending' = <<[at |-> <<>>, entry |-> inputPath]>>
    /\ bpc' = "walk"
    /\ UNCHANGED <<command, inputPath, outputOk, visited, exitCode, notCli>>

\* fs.mkdirSync(outputDir) throws: the outer catch logs and exits with 1
OutputFails ==
    /\ bpc = "start"
    /\ inputPath.kind # "missing"
    /\ ~outputOk
    /\ exitCode' = 1
    /\ bpc' = "done"
    /\ UNCHANGED <<command, inputPath, outputOk, pending, visited, notCli>>

Next1 == Head(pending)

\* processDirectory(fullPath, ...): the entries of the directory come next,
\* in their order, before what follows the directory
EnterDirectory ==
    /\ bpc = "walk"
    /\ pending # <<>>
    /\ Next1.entry.kind = "dir"
    /\ pending' = [i \in 1..Len(Next1.entry.entries) |->
                     [at |-> Append(Next1.at, i), entry |-> Next1.entry.entries[i]]]
                  \o Tail(pending)
    /\ UNCHANGED <<command, inputPath, outputOk, visited, exitCode, bpc, notCli>>

\* processFile on a file of another extension: logged, the file is left
SkipFile ==
    /\ bpc = "walk"
    /\ pending # <<>>
    /\ Next1.entry.kind = "file"
    /\ ~RightExtension(command, Next1.entry)
    /\ visited' = Append(visited, [at |-> Next1.at, outcome |-> "skipped"])
    /\ pending' = Tail(pending)
    /\ UNCHANGED <<command, inputPath, outputOk, exitCode, bpc, notCli>>

\* processFile: the generator returns and the result is written
WriteResult ==
    /\ bpc = "walk"
    /\ pending # <<>>
    /\ Next1.entry.kind = "file"
    /\ RightExtension(command, Next1.entry)
    /\ ~Next1.entry.throws
    /\ visited' = Append(visited, [at |-> Next1.at, outcome |-> "written"])
    /\ pending' = Tail(pending)
    /\ UNCHANGED <<command, inputPath, outputOk, exitCode, bpc, notCli>>

\* Mutant: processFile has no try/catch, the Error reaches the outer catch
CatchFailure_outer ==
    /\ bpc = "walk"
    /\ pending # <<>>
    /\ Next1.entry.kind = "file"
    /\ RightExtension(command, Next1.entry)
    /\ Next1.entry.throws
    /\ visited' = Append(visited, [at |-> Next1.at, outcome |-> "thrown"])
    /\ pending' = <<>>
    /\ exitCode' = 1
    /\ bpc' = "done"
    /\ UNCHANGED <<command, inputPath, outputOk, notCli>>

\* processFile: the generator throws, the catch of processFile logs the
\* Error and returns
CatchFailure ==
    /\ bpc = "walk"
    /\ pending # <<>>
    /\ Next1.entry.kind = "file"
    /\ RightExtension(command, Next1.entry)
    /\ Next1.entry.throws
    /\ visited' = Append(visited, [at |-> Next1.at, outcome |-> "caught"])
    /\ pending' = Tail(pending)
    /\ UNCHANGED <<command, inputPath, outputOk, exitCode, bpc, notCli>>

\* The walk is over: the action returns and the process ends with 0
WalkDone ==
    /\ bpc = "walk"
    /\ pending = <<>>
    /\ exitCode' = 0
    /\ bpc' = "done"
    /\ UNCHANGED <<command, inputPath, outputOk, pending, visited, notCli>>

CliNext ==
    \/ InputMissing
    \/ OutputReady
    \/ OutputFails
    \/ EnterDirectory
    \/ SkipFile
    \/ WriteResult
    \/ CatchFailure
    \/ WalkDone

CliIdle ==
    /\ command = ""
    /\ inputPath = <<>>
    /\ outputOk = FALSE
    /\ pending = <<>>
    /\ visited = <<>>
    /\ exitCode = -1
    /\ bpc = "idle"

---------------------------------------------------------------------------
(* Specifications                                                          *)

\* The code synthesis and the commands at rest
SchemaIdle == ResolverIdle /\ CanonIdle /\ SheetIdle /\ BlockIdle /\ GenIdle
SynthIdle == FieldIdle /\ ObjIdle /\ CliIdle

\* The reference resolver on one document and one node
InitResolve == ResolverInit /\ CanonIdle /\ SheetIdle /\ BlockIdle /\ GenIdle /\ SynthIdle
SpecResolve == InitResolve /\ [][resolveIfRef]_vars

\* The canonical fingerprint of two subtrees
InitCanon == CanonInit /\ ResolverIdle /\ SheetIdle /\ BlockIdle /\ GenIdle /\ SynthIdle
SpecCanon == InitCanon /\ [][Fingerprint]_vars

\* The scan of one sheet and the schema built from it
InitSheet == SheetInit /\ ResolverIdle /\ CanonIdle /\ BlockIdle /\ GenIdle /\ SynthIdle
NextSheet == parseBlocksInSheet \/ BuildSheet
SpecSheet == InitSheet /\ [][NextSheet]_vars

\* The schema of one block
InitBlock == BlockInit /\ ResolverIdle /\ CanonIdle /\ SheetIdle /\ GenIdle /\ SynthIdle
SpecBlock == InitBlock /\ [][BuildBlock]_vars

\* generate on one workbook
Init == GenInit /\ ResolverIdle /\ CanonIdle /\ SheetIdle /\ BlockIdle /\ SynthIdle
Next == generate
Spec == Init /\ [][Next]_vars

\* The scan of a sheet of two blocks in a row
InitAdjacent == AdjacentInit /\ ResolverIdle /\ CanonIdle /\ BlockIdle /\ GenIdle /\ SynthIdle
SpecAdjacent == InitAdjacent /\ [][NextSheet]_vars

\* ObjectGeneratorUtil.generate, run twice on one output directory
InitObjects == ObjInit /\ SchemaIdle /\ FieldIdle /\ CliIdle
SpecObjects == InitObjects /\ [][ObjectGenerate]_vars

\* One command, run on one input path
InitCli == CliInit /\ SchemaIdle /\ FieldIdle /\ ObjIdle
SpecCli == InitCli /\ [][CliNext]_vars

\* One field row, parsed and built
InitField == FieldInit /\ SchemaIdle /\ ObjIdle /\ CliIdle
SpecField == InitField /\ [][FieldNext]_vars

---------------------------------------------------------------------------
(* What the resolver is expected to do, stated on the document alone       *)

ErrUnresolved == <<"Could not resolve pointer: ">>
ErrUnsupported == <<"Unsupported $ref format (expected local ref): ">>

\* The node at location n carries an indirection marker: a non-empty $ref
Marker(n) ==
    /\ n # NullNode
    /\ HasKey(At(rootSchema, n), "$ref")
    /\ Get(At(rootSchema, n), "$ref").a # <<>>

\* The keys a pointer of the documents names, read off the way it was built
RefKeys(ref) ==
    IF ref = NoRootRef THEN <<"defs", "A">>
    ELSE IF \E n \in Names : ref = LocalRef(n)
    THEN <<"definitions", CHOOSE n \in Names : ref = LocalRef(n)>>
    ELSE <<"definitions", CHOOSE n \in Names : ref = DeepRef(n), "inner">>

\* The first i such that key i of `keys` is absent from the mapping reached
\* by the keys before it; 0 when every key is present
FirstAbsent(keys) ==
    LET absent == {i \in 1..Len(keys) :
                      ~HasKey(At(rootSchema, SubSeq(keys, 1, i - 1)), keys[i])}
    IN  IF absent = {} THEN 0
        ELSE CHOOSE i \in absent : \A j \in absent : i <= j

\* Where the chain of pointers that starts at n leads
RECURSIVE ChainFrom(_, _, _)
ChainFrom(n, fuel, hops) ==
    LET ref == Get(At(rootSchema, n), "$ref").a
        end(kind, ptr, seg) ==
            [kind |-> kind, at |-> n, hops |-> hops, pointer |-> ptr, seg |-> seg]
    IN  IF ~Marker(n) THEN end("node", <<>>, "")
        ELSE IF fuel = 0 THEN end("cycle", <<>>, "")
        ELSE IF ref = NonLocalRef THEN end("unsupported", ref, "")
        ELSE IF FirstAbsent(RefKeys(ref)) # 0
        THEN end("unresolved", SubSeq(ref, 3, Len(ref)),
                 RefKeys(ref)[FirstAbsent(RefKeys(ref))])
        ELSE ChainFrom(RefKeys(ref), fuel - 1, hops + 1)

Chain == ChainFrom(arg, NumNodes + 1, 0)

\* The number of pointers still to follow from location n
Left(n) == ChainFrom(n, NumNodes + 1, 0).hops

\* The loop can always take a step
CanStep == CanReturn \/ CanFollow \/ CanThrowUnresolved \/ CanThrowUnsupported

\* A step that stays in the loop has one pointer fewer to follow: with this
\* and a step always possible in the loop, the loop ends.
Descends == (rpc = "loop" /\ rpc' = "loop") => Left(node') < Left(node)

\* C2: resolving a pointer chain of any length over acyclic input, every
\* segment present, terminates: resolveIfRef returns the node at the end of
\* the chain, and that node carries no indirection marker.
C2_ChainTerminates ==
    /\ [](Chain.kind = "node" =>
            /\ rpc # "thrown"
            /\ rpc = "loop" => CanStep
            /\ rpc = "returned" => (node = Chain.at /\ ~Marker(node)))
    /\ [][Chain.kind = "node" => Descends]_vars

C2_Witness == rpc = "returned" /\ Chain.kind = "node" /\ Chain.hops >= 2

\* C3: resolving a node that carries no indirection marker returns that very
\* node (the same location, not a copy), raises no error, and leaves the
\* root document as it was.
C3_NoRefIdentity ==
    /\ [][rootSchema' = rootSchema /\ arg' = arg]_vars
    /\ [](~Marker(arg) =>
            /\ rpc # "thrown" /\ node = arg /\ err = <<>>
            /\ rpc = "loop" => CanReturn)

C3_Witness == rpc = "returned" /\ ~Marker(arg) /\ arg # NullNode

C5_NonLocalRaises ==
    /\ [](Chain.kind = "unsupported" =>
            /\ rpc # "returned"
            /\ rpc = "loop" => CanStep
            /\ rpc = "thrown" => err = ErrUnsupported \o Chain.pointer)
    /\ [][Chain.kind = "unsupported" => Descends]_vars

C5_Witness ==
    rpc = "thrown" /\ Chain.kind = "unsupported" /\ Chain.hops >= 1

\* C6 as claimed: for a chain A -> B -> C, resolving A returns C's contents,
\* and with B removed resolving A raises the unresolved-pointer error, whose
\* message names the missing segment (not the whole pointer).
C6_ErrorNamesSegment ==
    /\ (rpc = "returned" /\ Chain.kind = "node"
            => At(rootSchema, node) = At(rootSchema, Chain.at))
    /\ (rpc = "thrown" /\ Chain.kind = "unresolved"
            => err = ErrUnresolved \o <<Chain.seg>>)

\* C6 as amended: the message names the whole pointer that could not be
\* resolved (the reference without its "#/" prefix).
C6_ErrorNamesPointer ==
    /\ (rpc = "returned" /\ Chain.kind = "node"
            => At(rootSchema, node) = At(rootSchema, Chain.at))
    /\ (rpc = "thrown" /\ Chain.kind = "unresolved"
            => err = ErrUnresolved \o Chain.pointer)

C6_Witness ==
    /\ rpc = "thrown" /\ Chain.kind = "unresolved"
    /\ Chain.hops = 1 /\ Chain.seg \in Names



---------------------------------------------------------------------------
(* Canonical fingerprint                                                   *)

\* u and v are equal as nested mappings: the same keys with equal values
\* whatever the order of the keys, and the same elements in the same order
RECURSIVE SameMapping(_, _)
SameMapping(u, v) ==
    IF u.t # v.t THEN FALSE
    ELSE IF u.t = "object"
    THEN /\ {u.e[i].k : i \in 1..Len(u.e)} = {v.e[i].k : i \in 1..Len(v.e)}
         /\ \A i \in 1..Len(u.e) : SameMapping(u.e[i].v, Get(v, u.e[i].k))
    ELSE IF u.t = "array"
    THEN /\ Len(u.e) = Len(v.e)
         /\ \A i \in 1..Len(u.e) : SameMapping(u.e[i], v.e[i])
    ELSE u = v

\* C9: toCanonicalJson gives the same fingerprint to two subtrees that are
\* equal as nested mappings (keys reordered or objects rebuilt, at any
\* depth), and different fingerprints to two subtrees that differ in a value
\* or in the order of the elements of an array.
C9_FingerprintIsCanonical ==
    cpc = "done" => ((canonU = canonV) <=> SameMapping(cu, cv))

\* Two subtrees whose keys are in another order one level down
C9_Witness ==
    /\ cpc = "done"
    /\ cu # cv
    /\ canonU = canonV
    /\ cu.t = "object" /\ cv.t = "object"
    /\ Len(cu.e) = 1 /\ Len(cv.e) = 1
    /\ cu.e[1].v # cv.e[1].v

---------------------------------------------------------------------------
(* Sheet scan: scenario A                                                  *)

\* The block schemas of the sheet schema
SheetBlocks == Elements(At(sheetSchema, BlocksPath))

\* C7: the sheet whose rows are the heading employee_table, the meta row
\* name,null_allowed,type and the field rows id,No,number and
\* label,Yes,string yields exactly one block, a table, whose header
\* enumerates "id" then "label" and whose row constraints are
\* {type:"number"} then {type:["string","null"]}.
C7_ScenarioA ==
    sheetData = ScenarioA =>
        /\ spc \in {"parsed", "built"} =>
              /\ Len(blocks) = 1
              /\ blocks[1].name = "employee_table"
              /\ blocks[1].entity = "table"
        /\ spc = "built" =>
              /\ Len(SheetBlocks) = 1
              /\ At(SheetBlocks[1], <<"properties", "name", "enum">>)
                    = JArr(<<JStr("employee_table")>>)
              /\ At(SheetBlocks[1], <<"properties", "@entity", "enum">>)
                    = JArr(<<JStr("table")>>)
              /\ LET header == At(SheetBlocks[1], <<"properties", "header", "items">>).e
                 IN  [i \in 1..Len(header) |-> Get(header[i], "enum")]
                        = <<JArr(<<JStr("id")>>), JArr(<<JStr("label")>>)>>
              /\ At(SheetBlocks[1], <<"properties", "rows", "items", "items">>)
                    = JArr(<<JObj(<<KV("type", JStr("number"))>>),
                             JObj(<<KV("type", JArr(<<JStr("string"), JStr("null")>>))>>)>>)

\* The schema of the sheet of scenario A has been built, with a block in it
C7_Witness == sheetData = ScenarioA /\ spc = "built" /\ SheetBlocks # <<>>

---------------------------------------------------------------------------
(* Table blocks: header and row tuples                                     *)

\* The fields of the table: its field models, or the names of its header
TableSize == IF tbFront = "excel" THEN Len(tbBlock.fields) ELSE Len(tbBlock.header)
TableFieldName(i) ==
    IF tbFront = "excel" THEN tbBlock.fields[i].fieldName ELSE tbBlock.header[i]

\* The types of the values of column i of the data, counted from 1
ColumnTypes(i) ==
    {deriveJsonSchemaType(Cell(tbBlock.rows[r], i - 1)) : r \in 1..Len(tbBlock.rows)}

\* The types a constraint admits
TypesOf(c) ==
    LET type == Get(c, "type")
    IN  IF type.t = "array" THEN {type.e[k].s : k \in 1..Len(type.e)} ELSE {type.s}

\* c is the constraint of field i: what the field model declares, or the
\* types seen in the field's column ("null" when the column has no value)
IsConstraintOf(c, i) ==
    IF tbFront = "excel"
    THEN c = buildFieldSchema(tbBlock.fields[i])
    ELSE /\ Len(c.e) = 1
         /\ TypesOf(c) = (IF ColumnTypes(i) = {} THEN {"null"} ELSE ColumnTypes(i))

IsTupleOf(tuple, size) ==
    /\ Len(Get(tuple, "items").e) = size
    /\ Get(tuple, "minItems") = JNum(size)
    /\ Get(tuple, "maxItems") = JNum(size)

\* C10: for a table block with N fields, from either front-end, the header
\* tuple and the row-item tuple both have N entries and minItems = maxItems
\* = N, header entry i is the string enum of the name of field i, and
\* row-item entry i is the constraint of field i.
C10_TableTuplesArePositional ==
    (tpc = "built" /\ tbBlock.entity = "table") =>
        /\ Len(tbOut) = 1
        /\ LET header == At(tbOut[1], <<"properties", "header">>)
               rowItem == At(tbOut[1], <<"properties", "rows", "items">>)
           IN  /\ IsTupleOf(header, TableSize)
               /\ IsTupleOf(rowItem, TableSize)
               /\ \A i \in 1..TableSize :
                     /\ Get(header, "items").e[i] = StringEnum(TableFieldName(i))
                     /\ IsConstraintOf(Get(rowItem, "items").e[i], i)

\* A table of two fields whose two constraints differ
C10_Witness ==
    /\ tpc = "built"
    /\ tbBlock.entity = "table"
    /\ TableSize = 2
    /\ LET items == At(tbOut[1], <<"properties", "rows", "items", "items">>).e
       IN  items[1] # items[2]

---------------------------------------------------------------------------
(* Deduplication                                                           *)

\* The schema generate builds from the workbook, before it deduplicates
Built == IF frontEnd = "excel" THEN buildJsonSchema(workbook) ELSE inferSchema(workbook)

\* The block slots before and after
SlotsBefore == findAllBlockSchemas(Built)
SlotsAfter == findAllBlockSchemas(schema)

\* What a slot of the finished schema resolves to: itself, or the node its
\* reference points at
Resolved(slot) ==
    IF HasKey(slot, "$ref")
    THEN LET found == resolvePointer(substring(Get(slot, "$ref").a), schema)
         IN  IF found.ok THEN At(schema, found.at) ELSE Undefined
    ELSE slot

\* C1: after generate has deduplicated, every block slot resolves to a
\* schema equal to the subtree that stood at the same sheet and index
\* before, for every combination of repeated blocks.
C1_DedupRoundTrip ==
    gpc = "done" =>
        LET before == SlotsBefore
            after == SlotsAfter
        IN  /\ Len(after) = Len(before)
            /\ \A j \in 1..Len(after) :
                  SameMapping(Resolved(after[j].blockSchema), before[j].blockSchema)

\* The literal name of a block schema
BlockName(b) == At(b, <<"properties", "name", "enum">>).e[1].s

\* The slots of `before` that hold a block named address_list
AddressSlots(before) ==
    {j \in 1..Len(before) : BlockName(before[j].blockSchema) = "address_list"}

\* Scenario B: the address_list blocks are one shape in the slots `shared`,
\* two or more, and a different shape in the one slot `other`
IsScenarioB(before, shared, other) ==
    /\ Cardinality(shared) >= 2
    /\ \A i, j \in shared : before[i].blockSchema = before[j].blockSchema
    /\ \A i \in shared : ~SameMapping(before[i].blockSchema, before[other].blockSchema)

\* The entries of the definitions of the finished schema
Definitions == IF HasKey(schema, "definitions") THEN Get(schema, "definitions").e ELSE <<>>

\* C8: in scenario B the definitions hold exactly one entry for the shared
\* shape, each slot of the shared shape is a reference to that entry, and
\* the slot of the other shape keeps its own contents inline.
C8_ScenarioB ==
    gpc = "done" =>
        LET before == SlotsBefore
            after == SlotsAfter
            address == AddressSlots(before)
        IN  \A other \in address :
                IsScenarioB(before, address \ {other}, other) =>
                    LET shape == before[CHOOSE i \in address \ {other} : TRUE].blockSchema
                        entries == {i \in 1..Len(Definitions) :
                                       SameMapping(Definitions[i].v, shape)}
                    IN  /\ Cardinality(entries) = 1
                        /\ \A j \in address \ {other} : \A i \in entries :
                              after[j].blockSchema = RefTo(Definitions[i].k)
                        /\ after[other].blockSchema = before[other].blockSchema

\* Three sheets of one block each: the shared shape twice, then the other
C8_Witness ==
    /\ gpc = "done"
    /\ Len(workbook.sheets) = 3
    /\ \A s \in 1..3 : Len(workbook.sheets[s].blocks) = 1
    /\ AddressSlots(SlotsBefore) = {1, 2, 3}
    /\ IsScenarioB(SlotsBefore, {1, 2}, 3)

---------------------------------------------------------------------------
(* What a field row's constraint is expected to be, stated on the cells    *)

\* The cell of the field row under the meta-header label, Undefined when no
\* column carries the label
CellUnder(label) ==
    LET cols == {i \in 1..Len(frMeta) : toLowerCase(frMeta[i].s) = label}
    IN  IF cols = {} THEN Undefined
        ELSE frRow[CHOOSE i \in cols : \A j \in cols : j <= i]

\* The constraint lets the value null through
AdmitsNull(constraint) ==
    LET type == Get(constraint, "type")
    IN  \/ type = JStr("null")
        \/ type.t = "array" /\ \E i \in 1..Len(type.e) : type.e[i] = JStr("null")

\* The null-allowed cell reads "no", in any case
SaysNo(cell) == cell.t = "string" /\ cell.s \in {"no", "No", "nO", "NO"}

\* C17: the constraint of a field row is non-nullable only when the row's
\* null-allowed cell is "no" in any case; with any other cell, with no
\* null-allowed column and with no type cell, the constraint admits null.
C17_NullableUnlessNo ==
    fpc = "built" =>
        /\ ~AdmitsNull(frSchema) => SaysNo(CellUnder("null_allowed"))
        /\ ~SaysNo(CellUnder("null_allowed")) => AdmitsNull(frSchema)

\* The cell holds a number: a numeric cell, or a text that reads as one
HoldsNumber(cell) ==
    \/ cell.t = "number"
    \/ cell.t = "string" /\ \E n \in Numerals : cell.s = ToString(n)

NumberHeld(cell) ==
    IF cell.t = "number" THEN cell.n ELSE CHOOSE n \in Numerals : cell.s = ToString(n)

BoundLabels == {"minimum", "maximum", "minlength", "maxlength"}

BoundKey(label) ==
    CASE label = "minlength" -> "minLength" [] label = "maxlength" -> "maxLength"
      [] OTHER -> label

HasColumn(label) == \E i \in 1..Len(frMeta) : toLowerCase(frMeta[i].s) = label

\* C19: for each of the bound columns minimum, maximum, min-length and
\* max-length of a field row, the constraint carries the bound with the
\* cell's value when the cell holds a number, 0 included, and carries no
\* such bound when the cell is empty or not a number.
C19_BoundsFollowCells ==
    fpc = "built" =>
        \A label \in BoundLabels :
            HasColumn(label) =>
                IF HoldsNumber(CellUnder(label))
                THEN Get(frSchema, BoundKey(label)) = JNum(NumberHeld(CellUnder(label)))
                ELSE ~HasKey(frSchema, BoundKey(label))

---------------------------------------------------------------------------
(* What the scan of a sheet is expected to return, stated on the grid      *)

\* Row r, counted from 0, is a block heading
Heading(r) == isBlockHeading(RowAt(sheetData, r))

\* Row r starts a block: it is a heading, and not the meta row of the block
\* the row before it starts
RECURSIVE StartsBlock(_)
StartsBlock(r) == Heading(r) /\ (r = 0 \/ ~StartsBlock(r - 1))

BlockStarts == {r \in 0..(Len(sheetData) - 1) : StartsBlock(r)}

\* The k-th of them, in row order
NthStart(k) ==
    CHOOSE r \in BlockStarts : Cardinality({q \in BlockStarts : q < r}) = k - 1

\* The row that ends the fields of the block row h starts: the first blank
\* row or heading from row h + 2 on, the end of the sheet when there is none
FieldsEnd(h) ==
    LET stops == {e \in (h + 2)..Len(sheetData) :
                    \/ e = Len(sheetData)
                    \/ isBlankRow(RowAt(sheetData, e))
                    \/ Heading(e)}
    IN  IF stops = {} THEN h + 2 ELSE CHOOSE e \in stops : \A x \in stops : e <= x

\* The field rows of the block row h starts, in row order, read under the
\* columns of its meta row
OwnFields(h) ==
    [i \in 1..(FieldsEnd(h) - (h + 2)) |->
        parseFieldRow(RowAt(sheetData, h + 1 + i),
                      findMetaColumns(RowAt(sheetData, h + 1)))]

\* C18: the fields of a block end at the first blank row or at the first
\* heading row, and a heading row that ends them starts the next block:
\* every block of the grid is extracted, in row order, each with exactly its
\* own field rows in row order, and no heading is recorded as a field.
C18_BlocksBackToBack ==
    spc \in {"parsed", "built"} =>
        /\ Len(blocks) = Cardinality(BlockStarts)
        /\ \A k \in 1..Len(blocks) :
             /\ blocks[k].name = cellText(Cell(RowAt(sheetData, NthStart(k)), 0))
             /\ blocks[k].fields = OwnFields(NthStart(k))
             /\ \A i \in 1..Len(blocks[k].fields) :
                  /\ ~endsWith(blocks[k].fields[i].fieldName, "_list")
                  /\ ~endsWith(blocks[k].fields[i].fieldName, "_table")

\* Two blocks with no blank row between them, each with field rows
C18_Witness ==
    /\ spc = "parsed"
    /\ \A r \in 0..(Len(sheetData) - 1) : ~isBlankRow(RowAt(sheetData, r))
    /\ Len(blocks) = 2
    /\ Len(blocks[1].fields) = 2
    /\ Len(blocks[2].fields) = 1
    /\ blocks[1].name = "employee_table"
    /\ blocks[2].name = "address_list"

---------------------------------------------------------------------------
(* What deduplication is expected to rewrite, stated slot by slot          *)

\* The fingerprint the front-end takes of a block subtree
FingerprintOf(b) == IF frontEnd = "excel" THEN toCanonicalJson(b) ELSE stringify(b)

\* The slots of `before` that carry the fingerprint of slot j
Occurrences(before, j) ==
    {i \in 1..Len(before) :
        FingerprintOf(before[i].blockSchema) = FingerprintOf(before[j].blockSchema)}

\* The subtree is an entry of the definitions of the finished schema
Hoisted(b) == \E i \in 1..Len(Definitions) : SameMapping(Definitions[i].v, b)

\* The slot is left as it was but for a pointer in the place of its subtree
SlotKept(before, after, j) ==
    /\ after[j].sheet = before[j].sheet
    /\ after[j].index = before[j].index

\* C20: a block subtree is hoisted into the definitions exactly when its
\* fingerprint occurs in more than one slot over all sheets; a slot whose
\* fingerprint occurs once is left as it was, inline; every alternation
\* keeps its length and every slot its index.
C20_HoistedIffRepeated ==
    gpc = "done" =>
        LET before == SlotsBefore
            after == SlotsAfter
        IN  /\ Len(after) = Len(before)
            /\ \A j \in 1..Len(after) :
                 /\ SlotKept(before, after, j)
                 /\ IF Cardinality(Occurrences(before, j)) > 1
                    THEN /\ HasKey(after[j].blockSchema, "$ref")
                         /\ Hoisted(before[j].blockSchema)
                    ELSE /\ after[j].blockSchema = before[j].blockSchema
                         /\ ~Hoisted(before[j].blockSchema)

---------------------------------------------------------------------------
(* The classes written for the tables of a schema                          *)

\* The sheets of the schema a run is given, and the blocks they point at or hold
SchemaSheets == Elements(At(oSchema, SheetsPath))
SheetSlots(k) == Elements(At(SchemaSheets[k], BlocksPath))
ChildAt(k, i) == Deref(SheetSlots(k)[i], oSchema).v
LiteralOf(nd, prop) == At(nd, <<"properties", prop, "enum">>).e[1].s
TableSlots ==
    {s \in UNION {{<<k, i>> : i \in 1..Len(SheetSlots(k))} : k \in 1..Len(SchemaSheets)} :
        LiteralOf(ChildAt(s[1], s[2]), "@entity") = "table"}
HeaderItems(b) == Elements(At(b, <<"properties", "header", "items">>))
RowItems(b) == Elements(At(b, <<"properties", "rows", "items", "items">>))
RowFileOf(p) == SubSeq(p, 1, Len(p) - 2) \o <<files[p].row, ".ts">>

\* The table class `table` and the row class `row` are those of block b: the
\* header is the names of the IR header in order, and accessor pair j is on
\* slot j - 1 and typed from row item j
ClassesOfTable(table, row, b) ==
    LET N == Len(HeaderItems(b))
    IN  /\ table.name = LiteralOf(b, "name")
        /\ Len(table.header) = N
        /\ \A j \in 1..N : table.header[j] = Get(HeaderItems(b)[j], "enum").e[1].s
        /\ row.kind = "row"
        /\ Len(row.accessors) = N
        /\ \A j \in 1..N :
             /\ row.accessors[j].slot = j - 1
             /\ row.accessors[j].get = "get" \o capitalize(toCamelCase(table.header[j]))
             /\ row.accessors[j].set = "set" \o capitalize(toCamelCase(table.header[j]))
             /\ row.accessors[j].type = getTypeScriptType(Get(RowItems(b)[j], "type"))

\* C11: every table class written has, with its row class beside it, the N
\* header names of a table block of the schema in header order and N
\* getter/setter pairs, pair i on positional slot i and typed from row item
\* i; and every table block of a sheet that was generated has its class.
C11_TableSlotsByPosition ==
    /\ \A p \in DOMAIN files :
          files[p].kind = "table" =>
             /\ RowFileOf(p) \in DOMAIN files
             /\ \E s \in TableSlots :
                   ClassesOfTable(files[p], files[RowFileOf(p)], ChildAt(s[1], s[2]))
    /\ \A s \in TableSlots :
          (opc = "done" \/ (opc = "sheets" /\ s[1] < oSheet)) =>
             \E p \in DOMAIN files :
                /\ files[p].kind = "table"
                /\ files[p].name = LiteralOf(ChildAt(s[1], s[2]), "name")

\* A run has written the class of a table of two columns
C11_Witness ==
    /\ opc = "done"
    /\ \E p \in DOMAIN files :
          /\ files[p].kind = "table"
          /\ Len(files[p].header) = 2
          /\ Len(files[RowFileOf(p)].accessors) = 2

---------------------------------------------------------------------------
(* The container classes: the class of the workbook and those of the sheets *)

\* The three lists of a container class have one entry per slot, and entry
\* i of each names the class `classOf[i]` under the literal name `nameOf[i]`
OneEntryPerSlot(container, nameOf, classOf) ==
    /\ Len(container.subTypes) = Len(nameOf)
    /\ Len(container.pushed) = Len(nameOf)
    /\ Len(container.methods) = Len(nameOf)
    /\ \A i \in 1..Len(nameOf) :
         /\ container.subTypes[i] = [value |-> classOf[i], name |-> nameOf[i]]
         /\ container.pushed[i] = classOf[i]
         /\ container.methods[i].type = classOf[i]
         /\ container.methods[i].key = nameOf[i]

\* The class names of the files written for the child of literal name `name`
\* and of one of the kinds
ClassesWritten(name, kinds) ==
    {files[p].className : p \in {q \in DOMAIN files :
                                    /\ files[q].kind \in kinds
                                    /\ files[q].name = name}}

SlotNames(k) == [i \in 1..Len(SheetSlots(k)) |-> LiteralOf(ChildAt(k, i), "name")]
SheetNames == [k \in 1..Len(SchemaSheets) |-> LiteralOf(SchemaSheets[k], "name")]

---------------------------------------------------------------------------
(* Malformed schemas                                                       *)

\* The first path of a sheet that is absent or ill-typed, "" when none is
MissingPath(sheet) ==
    LET blocksNode == At(sheet, <<"properties", "blocks">>)
    IN  IF blocksNode.t # "object" \/ Get(blocksNode, "type") # JStr("array")
        THEN "blocks"
        ELSE IF Get(blocksNode, "items").t # "object" THEN "blocks.items"
        ELSE IF Get(Get(blocksNode, "items"), "oneOf").t # "array"
        THEN "blocks.items.oneOf"
        ELSE ""

\* The sheets of the workbook are absent, no array, or without items
SheetsMissing ==
    LET sheetsNode == At(oSchema, <<"properties", "sheets">>)
    IN  \/ sheetsNode.t # "object"
        \/ Get(sheetsNode, "type") # JStr("array")
        \/ ~HasKey(sheetsNode, "items")

\* The message that names a path
MessageNaming(path) ==
    CASE path = "sheets" ->
            <<"Invalid JSON Schema: \"sheets\" definition not found or malformed.">>
      [] path = "blocks" ->
            <<"Invalid JSON Schema: \"blocks\" definition not found or malformed.">>
      [] path = "blocks.items" ->
            <<"Invalid JSON Schema: \"blocks.items\" not found.">>
      [] path = "blocks.items.oneOf" ->
            <<"Invalid JSON Schema: \"blocks.items.oneOf\" not found or not an array.">>

HasClassOf(kind, name) ==
    \E p \in DOMAIN files : files[p].kind = kind /\ files[p].name = name

\* C13: a run on a workbook whose sheets are absent, no array or without
\* items ends with the message naming "sheets" and writes no class; a run
\* that reaches a sheet whose blocks, blocks.items or blocks.items.oneOf is
\* absent or ill-typed ends with the message naming the first such path, and
\* the class of that sheet is never written; a run ends with an Error in no
\* other case.
C13_MalformedIsFatal ==
    /\ SheetsMissing =>
          /\ opc \in {"start", "thrown"}
          /\ opc = "thrown" => oerr = MessageNaming("sheets")
          /\ \A p \in DOMAIN files : files[p].kind \notin {"workbook", "sheet", "table", "list", "row"}
    /\ \A k \in 1..Len(SchemaSheets) :
          MissingPath(SchemaSheets[k]) # "" =>
             /\ ~HasClassOf("sheet", LiteralOf(SchemaSheets[k], "name"))
             /\ (opc = "sheets" => oSheet <= k)
             /\ opc \notin {"mixins", "index", "done"}
    /\ (opc = "thrown" /\ ~SheetsMissing) =>
          /\ oSheet \in 1..Len(SchemaSheets)
          /\ MissingPath(SchemaSheets[oSheet]) # ""
          /\ oerr = MessageNaming(MissingPath(SchemaSheets[oSheet]))

\* A run has ended at its second sheet, whose blocks.items is absent, the
\* first sheet's class written
C13_Witness ==
    /\ opc = "thrown"
    /\ oSheet = 2
    /\ oerr = MessageNaming("blocks.items")
    /\ HasClassOf("sheet", LiteralOf(SchemaSheets[1], "name"))

---------------------------------------------------------------------------
(* The registries                                                          *)

RegistryFile(category) ==
    CASE category = "workbook" -> <<"mixins", "WorkbookMixin", ".ts">>
      [] category = "sheet" -> <<"mixins", "SheetMixin", ".ts">>
      [] category = "table" -> <<"mixins", "TableMixin", ".ts">>
      [] category = "list" -> <<"mixins", "ListMixin", ".ts">>
      [] category = "row" -> <<"mixins", "RowMixin", ".ts">>

FiveCategories == {"workbook", "sheet", "table", "list", "row"}

\* The class names a run has produced in a category: those it has pushed,
\* and those of the class files of the category
Produced(category) ==
    {classNames[category][i] : i \in 1..Len(classNames[category])}
    \cup {files[p].className : p \in {q \in DOMAIN files : files[q].kind = category}}

\* The registry of the category is written, tagged with the category, and
\* lists the class names produced in it, each once
RegistryLists(category) ==
    /\ RegistryFile(category) \in DOMAIN files
    /\ LET registry == files[RegistryFile(category)]
       IN  /\ registry.kind = "mixin"
           /\ registry.entity = category
           /\ {registry.subtypes[i] : i \in 1..Len(registry.subtypes)} = Produced(category)
           /\ \A i, j \in 1..Len(registry.subtypes) :
                 registry.subtypes[i] = registry.subtypes[j] => i = j

---------------------------------------------------------------------------
(* Running twice                                                           *)

\* C15: when the second of two runs with one schema on one output directory
\* has ended, the directory holds the files it held when the first had
\* ended, each with the same content.
C15_SecondRunSameFiles ==
    (oRun = 2 /\ opc \in {"done", "thrown"}) => files = firstRun

\* The second run is done, over the classes, the registries and the index
\* of the first
C15_Witness ==
    /\ oRun = 2
    /\ opc = "done"
    /\ <<"index", ".ts">> \in DOMAIN firstRun
    /\ RegistryFile("row") \in DOMAIN firstRun
    /\ \E p \in DOMAIN firstRun : firstRun[p].kind = "list"
    /\ DOMAIN files = DOMAIN firstRun

---------------------------------------------------------------------------
(* The batch commands                                                      *)

\* The files under an entry, in the order of the walk
RECURSIVE FilesUnder(_, _)
FilesUnder(entry, at) ==
    CASE entry.kind = "file" -> <<[at |-> at, entry |-> entry]>>
      [] entry.kind = "dir" ->
            LET RECURSIVE From(_)
                From(i) == IF i > Len(entry.entries) THEN <<>>
                           ELSE FilesUnder(entry.entries[i], Append(at, i)) \o From(i + 1)
            IN  From(1)
      [] OTHER -> <<>>

OutcomeOf(cmd, entry) ==
    IF ~RightExtension(cmd, entry) THEN "skipped"
    ELSE IF entry.throws THEN "caught" ELSE "written"

---------------------------------------------------------------------------
(* The names of the definitions of the Json front-end                      *)

\* The slot's fingerprint occurs in more than one slot
RepeatedSlot(before, j) == Cardinality(Occurrences(before, j)) > 1

\* C21: in the Json front-end any two repeated block subtrees of different
\* fingerprints are hoisted under different definition names, those of one
\* literal block name included: their slots point at different entries and
\* each of the two subtrees is an entry of the definitions.
C21_HashSeparatesShapes ==
    (frontEnd = "json" /\ gpc = "done") =>
        LET before == SlotsBefore
            after == SlotsAfter
        IN  \A i, j \in 1..Len(before) :
               (/\ RepeatedSlot(before, i)
                /\ RepeatedSlot(before, j)
                /\ FingerprintOf(before[i].blockSchema) # FingerprintOf(before[j].blockSchema)) =>
                   /\ after[i].blockSchema # after[j].blockSchema
                   /\ Hoisted(before[i].blockSchema)
                   /\ Hoisted(before[j].blockSchema)

---------------------------------------------------------------------------
(* generate over blocks whose names and key orders differ                  *)

MaxNamedSlots == 3

\* Excel block models: a list, the same list with its field rows exchanged,
\* and a list whose name holds a "/"
NamedExcelBlocks ==
    {[name |-> "address_list", entity |-> "list",
      fields |-> <<Field("street", "Yes", "string"), Field("zip", "Yes", "number")>>],
     [name |-> "address_list", entity |-> "list",
      fields |-> <<Field("zip", "Yes", "number"), Field("street", "Yes", "string")>>],
     [name |-> SlashName, entity |-> "list",
      fields |-> <<Field("street", "Yes", "string")>>]}

\* Json blocks: a list, the same list with its items exchanged, and a list
\* whose name holds a "/"
NamedJsonBlocks ==
    {DataBlock("address_list", "list", <<>>, <<>>,
               <<JObj(<<KV("street", JStr("x"))>>), JObj(<<KV("zip", JNum(1))>>)>>),
     DataBlock("address_list", "list", <<>>, <<>>,
               <<JObj(<<KV("zip", JNum(1))>>), JObj(<<KV("street", JStr("x"))>>)>>),
     DataBlock(SlashName, "list", <<>>, <<>>, SlashItems)}

NamedInit ==
    /\ frontEnd \in {"excel", "json"}
    /\ \E n \in 0..MaxNamedSlots, spare \in 0..1 :
         /\ n + spare <= MaxNamedSlots
         /\ \E d \in Dealings(n) :
              \E bs \in [1..n -> IF frontEnd = "excel" THEN NamedExcelBlocks
                                 ELSE NamedJsonBlocks] :
                 workbook = Workbook(bs, d, spare)
    /\ schema = JNull
    /\ definitions = JNull
    /\ gerr = <<>>
    /\ gpc = "model"

InitNamed == NamedInit /\ ResolverIdle /\ CanonIdle /\ SheetIdle /\ BlockIdle /\ SynthIdle
NextNamed == generate
SpecNamed == InitNamed /\ [][NextNamed]_vars

\* C22: in the Json front-end two block slots whose subtrees are equal as
\* mappings, whatever the order of their keys, carry the same fingerprint
\* and are replaced by one and the same reference to a shared definition.
C22_FingerprintIgnoresOrder ==
    (frontEnd = "json" /\ gpc = "done") =>
        LET before == SlotsBefore
            after == SlotsAfter
        IN  \A i, j \in 1..Len(before) :
               (i # j /\ SameMapping(before[i].blockSchema, before[j].blockSchema)) =>
                  /\ FingerprintOf(before[i].blockSchema) = FingerprintOf(before[j].blockSchema)
                  /\ HasKey(after[i].blockSchema, "$ref")
                  /\ after[i].blockSchema = after[j].blockSchema

---------------------------------------------------------------------------
(* The constraint the Json front-end infers for a table column             *)

\* The kind of a cell value, in the order null, boolean, number, array,
\* object; anything else, an absent cell included, counts as a string
KindOf(value) ==
    IF value.t \in {"null", "boolean", "number", "array", "object"} THEN value.t
    ELSE "string"

\* The kinds seen in column i of the data, counted from 1
KindsOfColumn(i) ==
    {KindOf(Cell(tbBlock.rows[r], i - 1)) : r \in 1..Len(tbBlock.rows)}

\* C23: for every Json table block and every column, the inferred
\* constraint is fixed by the set of kinds seen in the column: the scalar
\* type when one kind is seen, the union of exactly the kinds seen, each
\* once, when several are, and "null" when the block has no row.
C23_ConstraintFromKinds ==
    (tpc = "built" /\ tbFront = "json" /\ tbBlock.entity = "table") =>
        LET items == At(tbOut[1], <<"properties", "rows", "items", "items">>).e
        IN  /\ Len(items) = Len(tbBlock.header)
            /\ \A i \in 1..Len(tbBlock.header) :
                  LET kinds == KindsOfColumn(i)
                      type == Get(items[i], "type")
                  IN  CASE Cardinality(kinds) = 0 -> type = JStr("null")
                        [] Cardinality(kinds) = 1 -> \E kind \in kinds : type = JStr(kind)
                        [] OTHER ->
                             /\ type.t = "array"
                             /\ Len(type.e) = Cardinality(kinds)
                             /\ {type.e[k] : k \in 1..Len(type.e)} = {JStr(kind) : kind \in kinds}

\* A table whose column holds an array and an object, one in each row
C23_Witness ==
    /\ tpc = "built"
    /\ tbFront = "json"
    /\ tbBlock.entity = "table"
    /\ Len(tbBlock.header) = 1
    /\ Len(tbBlock.rows) = 2
    /\ KindsOfColumn(1) = {"array", "object"}
    /\ Get(At(tbOut[1], <<"properties", "rows", "items", "items">>).e[1], "type").t = "array"

---------------------------------------------------------------------------
(* ObjectGeneratorUtil.generate on the schemas of the Json front-end, run  *)
(* twice into one directory, the second time on the same or another schema *)

\* Tables named row_table, employee and employee_table, and a list
NamedTables ==
    {DataBlock("row_table", "table", <<"id">>, <<<<JNum(1)>>>>, <<>>),
     DataBlock("employee", "table", <<"id">>, <<<<JNum(1)>>>>, <<>>),
     DataBlock("employee_table", "table", <<"id", "label">>, <<<<JNum(1), JStr("x")>>>>, <<>>),
     DataBlock("address_list", "list", <<>>, <<>>, <<JObj(<<KV("street", JStr("x"))>>)>>)}

\* JsonToSchemaGeneratorUtil.generate, from the validated data on
JsonSchemaOf(data) ==
    LET result == Json_deduplicateBlocks(inferSchema(data))
    IN  IF Len(result.definitions.e) > 0
        THEN SetKey(result.schema, "definitions", result.definitions)
        ELSE result.schema

\* The schemas of the workbooks of up to MaxObjSlots of the blocks, each
\* sheet holding a block
NamedSchemas ==
    UNION {{JsonSchemaOf(Workbook(bs, d, 0)) : bs \in [1..n -> NamedTables], d \in Dealings(n)} :
           n \in 1..MaxObjSlots}

ObjNamedInit ==
    /\ \E made \in NamedSchemas :
         \/ oSchema = made
         \/ \E what \in WorkbookDamages : oSchema = Damaged(made, what, 0)
         \/ \E what \in SheetDamages, k \in 1..Len(Elements(At(made, SheetsPath))) :
               oSchema = Damaged(made, what, k)
    /\ files = <<>>
    /\ oSheets = <<>>
    /\ oSheet = 0
    /\ classNames = NoClassNames
    /\ commonBlocks = {}
    /\ oerr = <<>>
    /\ oRun = 1
    /\ firstRun = <<>>
    /\ opc = "start"

\* generate is called again with another schema and the same outputDir
RunOther ==
    /\ opc = "done"
    /\ oRun = 1
    /\ \E other \in NamedSchemas \ {oSchema} : oSchema' = other
    /\ firstRun' = files
    /\ oRun' = 2
    /\ oSheets' = <<>>
    /\ oSheet' = 0
    /\ classNames' = NoClassNames
    /\ commonBlocks' = {}
    /\ oerr' = <<>>
    /\ opc' = "start"
    /\ UNCHANGED <<files, notObj>>

InitObjNamed == ObjNamedInit /\ SchemaIdle /\ FieldIdle /\ CliIdle
NextObjNamed == ObjectGenerate \/ RunOther
SpecObjNamed == InitObjNamed /\ [][NextObjNamed]_vars

\* The file an import of a registry names, from the output directory
ImportTarget(import) == Tail(import.from) \o <<".ts">>

\* The imports of the registry of a category, none when it is not written
RegistryImports(category) ==
    IF RegistryFile(category) \in DOMAIN files
    THEN LET imports == files[RegistryFile(category)].imports
         IN  {imports[i] : i \in 1..Len(imports)}
    ELSE {}

\* C24: every table, list and row class a registry lists is imported from
\* the place where its class file was written, the row classes from the
\* directory of their own table, and a block class is imported from the
\* shared namespace exactly when its slot in the schema is a reference.
C24_RegistryImportsWhereEmitted ==
    (opc = "done" /\ oRun = 1) =>
        /\ \A category \in {"table", "list", "row"} :
              \A import \in RegistryImports(category) :
                 /\ ImportTarget(import) \in DOMAIN files
                 /\ files[ImportTarget(import)].className = import.class
        /\ \A k \in 1..Len(SchemaSheets) : \A i \in 1..Len(SheetSlots(k)) :
              LET category == IF LiteralOf(ChildAt(k, i), "@entity") = "list"
                              THEN "list" ELSE "table"
              IN  \E import \in RegistryImports(category) :
                     /\ import.class = BlockClassName(ChildAt(k, i))
                     /\ (import.from[3] = "common") = Truthy(Get(SheetSlots(k)[i], "$ref"))

---------------------------------------------------------------------------
(* The class names of a run                                                *)

IsPrefix(earlier, later) ==
    /\ Len(earlier) <= Len(later)
    /\ SubSeq(later, 1, Len(earlier)) = earlier

\* C25: a run starts with the five lists of class names empty, whatever the
\* run before it has listed, and each step of a run leaves every list as it
\* was or longer at its end, the names it held before in their places.
C25_RegistryAppendOnly ==
    /\ [](opc = "start" => classNames = NoClassNames)
    /\ [][/\ oRun' # oRun => classNames' = NoClassNames
          /\ oRun' = oRun =>
                \A category \in FiveCategories :
                   IsPrefix(classNames[category], classNames'[category])]_vars

\* A second run has ended with the names of its own two sheets and two
\* tables, after a first run that listed as many
C25_Witness ==
    /\ oRun = 2
    /\ opc = "done"
    /\ Len(classNames.sheet) = 2
    /\ Len(classNames.table) = 2
    /\ Len(classNames.row) = 2

---------------------------------------------------------------------------
(* The order in which a run writes                                         *)

WorkbookFile == <<"workbook", "Book", ".ts">>
IndexFile == <<"index", ".ts">>
BlockKinds == {"table", "list", "row"}

\* The files a step adds to the output directory
NewFiles == DOMAIN files' \ DOMAIN files

\* The files of a kind the directory holds
FilesOf(kinds) == {p \in DOMAIN files : files[p].kind \in kinds}

---------------------------------------------------------------------------
(* Pointer chains that lead back into themselves                           *)

\* C27: on a chain of pointers that leads back to a node it has passed,
\* every segment present, resolveIfRef stays in its loop, where following
\* the pointer is the one step it can take: it neither returns a node nor
\* raises an Error.
C27_CycleNeverEnds ==
    Chain.kind = "cycle" =>
        /\ rpc = "loop"
        /\ err = <<>>
        /\ Marker(node)
        /\ CanFollow
        /\ ~CanReturn /\ ~CanThrowUnresolved /\ ~CanThrowUnsupported

\* The loop has followed a pointer of a chain that leads back to the node
\* it began at through another node
C27_Witness ==
    /\ Chain.kind = "cycle"
    /\ rpc = "loop"
    /\ node # arg
    /\ resolvePointer(substring(Text(RefOf(rootSchema, node))), rootSchema).at = arg

---------------------------------------------------------------------------
(* The references deduplication writes, read by the resolver                *)

\* C28: every reference a deduplicator has written in a block slot is
\* resolved by the resolver against the finished schema, and to the entry of
\* the definitions that holds the subtree the slot held before, whatever
\* the name of the block.
C28_WrittenRefsResolve ==
    gpc = "done" =>
        LET before == SlotsBefore
            after == SlotsAfter
        IN  \A j \in 1..Len(after) :
               HasKey(after[j].blockSchema, "$ref") =>
                  LET found == Deref(after[j].blockSchema, schema)
                  IN  /\ found.ok
                      /\ SameMapping(found.v, before[j].blockSchema)
                      /\ \E i \in 1..Len(Definitions) : Definitions[i].v = found.v

---------------------------------------------------------------------------
(* The table class and the row class of a table block                      *)

\* The directory the classes of the table in a slot are written to
TableDirectoryOf(s) ==
    IF Truthy(Get(SheetSlots(s[1])[s[2]], "$ref"))
    THEN <<"tables", "common", toKebabCase(LiteralOf(ChildAt(s[1], s[2]), "name"))>>
    ELSE <<"tables", toKebabCase(LiteralOf(ChildAt(s[1], s[2]), "name"))>>

\* C29: once a run has ended, every table block of the schema has its table
\* class and its row class in two files of its directory under two class
\* names, and no class name is listed both as a table and as a row.
C29_TableAndRowApart ==
    (opc = "done" /\ oRun = 1) =>
        /\ \A s \in TableSlots :
              \E p, q \in DOMAIN files :
                 /\ p # q
                 /\ SubSeq(p, 1, Len(p) - 2) = TableDirectoryOf(s)
                 /\ SubSeq(q, 1, Len(q) - 2) = TableDirectoryOf(s)
                 /\ files[p].kind = "table"
                 /\ files[q].kind = "row"
                 /\ files[p].className # files[q].className
        /\ \A i \in 1..Len(classNames.table), j \in 1..Len(classNames.row) :
              classNames.table[i] # classNames.row[j]

---------------------------------------------------------------------------
(* A run after another run, set against a run into an empty directory      *)

\* SheetGeneratorUtil.generate on the sheets from k on, one after the other
RECURSIVE SheetsFrom(_, _, _, _)
SheetsFrom(root, sheets, k, made) ==
    IF k > Len(sheets) \/ made.err # <<>> THEN made
    ELSE With(SheetGenerate(root, sheets[k], made),
              LAMBDA next : SheetsFrom(root, sheets, k + 1, next))

\* The files a run on the schema leaves in a directory that was empty
FreshRun(root) ==
    LET items == Get(At(root, <<"properties", "sheets">>), "items")
        sheets == IF Truthy(Get(items, "oneOf"))
                  THEN Elements(Get(items, "oneOf")) ELSE <<items>>
    IN  With(SheetsFrom(root, sheets, 1,
                        WorkbookGenerate(root, sheets, Made(NoClassNames, <<>>, <<>>))),
             LAMBDA made :
                generateIndexFile(
                    MixinGenerate(made.names, made.files,
                                  UNION {CommonOf(root, sheets[i]) : i \in 1..Len(sheets)})))

\* C30: when a second run into the directory of a first run has ended, the
\* index and every registry the directory holds are those a run on the
\* second schema writes into an empty directory.
C30_RunDependsOnSchemaOnly ==
    (oRun = 2 /\ opc = "done") =>
        With(FreshRun(oSchema), LAMBDA fresh :
            /\ files[IndexFile] = fresh[IndexFile]
            /\ \A category \in FiveCategories :
                  RegistryFile(category) \in DOMAIN files =>
                     /\ RegistryFile(category) \in DOMAIN fresh
                     /\ files[RegistryFile(category)] = fresh[RegistryFile(category)])

=============================================================================
